---- MODULE Spec2Model ----
(***************************************************************************)
(* A model of Enmovito: the CSV ingestion of DataHandler.load_data, the    *)
(* unit parsing and Fahrenheit->Celsius conversion helpers, the            *)
(* unit-grouped plot composition of VisualizationPanel.generate_plot, the  *)
(* plot tabs of the panel, and the window's handling of loads, plot        *)
(* requests and temperature unit changes.                                  *)
(*                                                                         *)
(* Text is modelled as sequences of one-character strings, so that strip,  *)
(* split, startswith and replace are computed the way Python computes      *)
(* them.  Dictionaries are functions whose DOMAIN is the key set.          *)
(***************************************************************************)
EXTENDS Integers, Sequences, FiniteSets, TLC

VARIABLES
    \* DataHandler (src/enmovito/data_handler.py, __init__ lines 10-17)
    df,               \* the loaded table, or DfNone
    log_file_path,    \* path of the last load attempt, or NoPath
    numeric_columns,  \* names of the numeric columns of df
    abbr_to_full,     \* dict abbreviated name -> full name
    full_to_abbr,     \* dict full name -> abbreviated name
    use_celsius,      \* temperature preference
    load_ret,         \* outcome of the last DataHandler.load_data call
    \* history of the last load_data call (not program state)
    last_file,        \* the file the call read
    prev_abbrs,       \* the keys abbr_to_full had before the call
    held_path,        \* the path of the file whose data df holds, or NoPath
    \* VisualizationPanel (src/enmovito/gui/visualization.py, lines 97-126)
    plot_tabs,          \* the tab widgets of the QTabWidget, in tab order: their layouts
    tab_text,           \* plot_tabs.tabText(i) of each position, in tab order
    current_index,      \* plot_tabs.currentIndex(), counted from 0
    tab_plot_browsers,  \* dict tab index -> browser widget or NoBrowser
    tab_figures,        \* dict tab index -> figure or NoFigure
    tab_x_params,       \* dict tab index -> X parameter of the tab's first plot
    plot_ret,           \* outcome of the last plot request
    \* history of the last generate_plot call that returned True (not program state)
    last_plot,
    \* Enmovito (src/enmovito.py) and its ControlPanel
    window,             \* df, numeric_columns, log_file_path, plot_placeholder text
    control_panel,      \* the two lists, their selection, the buttons, file_label
    \* pure-function harness: the argument and result of the last call
    fn_arg,
    fn_res

histVars == <<last_file, prev_abbrs, held_path>>

-----------------------------------------------------------------------------
(* Bounds of the model *)

\* Largest number of columns of a CSV header line.
MaxCols == 2
\* Longest parameter name handed to extract_unit (besides the spec's example).
MaxNameLen == 4
\* Largest magnitude of a temperature handed to fahrenheit_to_celsius.
MaxTemp == 60
\* Most panels of a figure that further parameters are added to.
MaxPanels == 3
\* Most plot tabs open at a time.
MaxTabs == 3
\* Most traces of a figure in the runs that open and close tabs.
MaxTabTraces == 2
\* Number of columns of the plotted log that each have a unit of their own.
ManyUnits == 10

-----------------------------------------------------------------------------
(* Python text primitives *)

\* str.isspace() characters that occur in the modelled files.
Whitespace == {" "}

RECURSIVE lstrip(_)
\* str.lstrip(): drop leading whitespace.
lstrip(s) ==
    IF s = <<>> THEN <<>>
    ELSE IF Head(s) \in Whitespace THEN lstrip(Tail(s)) ELSE s

RECURSIVE rstrip(_)
\* str.rstrip(): drop trailing whitespace.
rstrip(s) ==
    IF s = <<>> THEN <<>>
    ELSE IF s[Len(s)] \in Whitespace THEN rstrip(SubSeq(s, 1, Len(s) - 1)) ELSE s

\* str.strip()
strip(s) == rstrip(lstrip(s))

\* str.startswith(p)
startswith(s, p) == Len(s) >= Len(p) /\ SubSeq(s, 1, Len(p)) = p

\* First index of character ch in s, 0 when absent.
IndexOf(s, ch) ==
    IF \E i \in 1..Len(s) : s[i] = ch
    THEN CHOOSE i \in 1..Len(s) : s[i] = ch /\ \A j \in 1..(i - 1) : s[j] # ch
    ELSE 0

RECURSIVE split(_, _)
\* str.split(ch) for a one-character separator: always at least one piece.
split(s, ch) ==
    LET i == IndexOf(s, ch) IN
    IF i = 0 THEN <<s>>
    ELSE <<SubSeq(s, 1, i - 1)>> \o split(SubSeq(s, i + 1, Len(s)), ch)

RECURSIVE join(_, _)
\* ch.join(pieces)
join(pieces, ch) ==
    IF pieces = <<>> THEN <<>>
    ELSE IF Len(pieces) = 1 THEN pieces[1]
    ELSE pieces[1] \o <<ch>> \o join(Tail(pieces), ch)

\* Decimal digits as characters; str(k) for 0 <= k <= 9.
DigitChars == <<"0", "1", "2", "3", "4", "5", "6", "7", "8", "9">>
RECURSIVE IntToStr(_)
IntToStr(k) == IF k < 10 THEN <<DigitChars[k + 1]>>
               ELSE IntToStr(k \div 10) \o <<DigitChars[(k % 10) + 1]>>

\* dict[key] = value
DictPut(d, key, value) ==
    [k \in (DOMAIN d) \cup {key} |-> IF k = key THEN value ELSE d[k]]

EmptyDict == <<>>

-----------------------------------------------------------------------------
(* Log files on disk *)

\* Cells that occur in line 3 (abbreviated names): empty, whitespace-only, names.
AbbrCells == {<<>>, <<" ">>, <<"A">>, <<"B">>}
\* Cells that occur in line 2 (full names): empty, a full name, and a full
\* name that equals another column's abbreviated name.
FullCells == {<<>>, <<"F">>, <<"A">>}

\* All sequences of length n over the set S.
Tuples(S, n) == [1..n -> S]

\* What the file system holds at a path when load_data opens it.
\*   exists   : open() succeeds
\*   nlines   : how many of the three preamble lines the file has (0..3)
\*   line2    : raw text of line 2 (full names), without the newline
\*   line3    : raw text of line 3 (abbreviated names), without the newline
\*   numeric  : the column positions (1-based) whose data cells are all numbers
\*   parses   : FALSE when line 6 of the file, a data row, holds one field
\*              more than line 3
MissingFile ==
    [exists |-> FALSE, nlines |-> 0, line2 |-> <<>>, line3 |-> <<>>,
     numeric |-> {}, parses |-> FALSE]
ShortFile(k) ==
    [exists |-> TRUE, nlines |-> k, line2 |-> <<>>, line3 |-> <<>>,
     numeric |-> {}, parses |-> FALSE]
LogFile(fullCells, abbrCells, num, ok) ==
    [exists |-> TRUE, nlines |-> 3, line2 |-> join(fullCells, ","),
     line3 |-> join(abbrCells, ","), numeric |-> num, parses |-> ok]

\* The files that cannot be loaded for want of a preamble.
FailingFiles == {MissingFile} \cup { ShortFile(k) : k \in 0..2 }

\* The files used when several loads follow each other: every column named,
\* every data column numeric.  A recorder names its columns A or B; the full
\* name of a column depends on the recorder's firmware edition.
NamedAbbrCells == {<<"A">>, <<"B">>}
Editions == {"e1", "e2"}
EditionFullName(ed, abbr) ==
    IF (ed = "e1") = (abbr = <<"A">>) THEN <<"F">> ELSE <<"G">>
NamedFile(ed, abbrCells, ok) ==
    LogFile([ i \in 1..Len(abbrCells) |-> EditionFullName(ed, abbrCells[i]) ],
            abbrCells, 1..Len(abbrCells), ok)

\* Paths handed to load_data, as text: 'd/a' in a directory and 'b' without
\* one.  NoPath is None.
Paths == {<<"d", "/", "a">>, <<"b">>}
NoPath == <<"None">>

-----------------------------------------------------------------------------
(* pandas.read_csv(file_path, skiprows=2, header=0) and DataFrame helpers *)

UnnamedPrefix == <<"U", "n", "n", "a", "m", "e", "d", ":">>

\* The column names pandas gives the header cells: an empty cell becomes
\* "Unnamed: <0-based index>", a repeated name gets the suffix ".<count>".
PandasColumnName(cells, i) ==
    LET base  == cells[i]
        count == Cardinality({ j \in 1..(i - 1) : cells[j] = base })
    IN  IF base = <<>> THEN UnnamedPrefix \o <<" ">> \o IntToStr(i - 1)
        ELSE IF count > 0 THEN base \o <<".">> \o IntToStr(count)
        ELSE base

\* The table read_csv returns: one column per header cell of the raw line 3.
\* A column is [name, pos, numeric]: pos is the file column it holds.
read_csv(c) ==
    LET cells == split(c.line3, ",") IN
    [ i \in 1..Len(cells) |->
        [name |-> PandasColumnName(cells, i), pos |-> i, numeric |-> i \in c.numeric] ]

DfNone == [none |-> TRUE, columns |-> <<>>]
DataFrame(cols) == [none |-> FALSE, columns |-> cols]

\* Names of a table's columns (df.columns.tolist()).
ColumnNames(cols) == [ i \in 1..Len(cols) |-> cols[i].name ]

-----------------------------------------------------------------------------
(* DataHandler.load_data *)

\* The exception classes the body of load_data can raise, with their base
\* classes (Python's built-in hierarchy and pandas.errors.ParserError).
BaseClass ==
    [ FileNotFoundError |-> "OSError", OSError |-> "Exception",
      StopIteration |-> "Exception", ParserError |-> "ValueError",
      ValueError |-> "Exception", Exception |-> "BaseException" ]

RECURSIVE IsSubclass(_, _)
IsSubclass(cls, base) ==
    \/ cls = base
    \/ cls \in DOMAIN BaseClass /\ IsSubclass(BaseClass[cls], base)

RECURSIVE Str(_)
\* The text as one string.
Str(text) == IF text = <<>> THEN "" ELSE text[1] \o Str(Tail(text))

\* str(e) of the exceptions above, raised while the file at file_path, which
\* holds c, is loaded: open() names the path, next() on an exhausted file
\* has no message, and the tokenizer of read_csv reports line 6 of the file
\* as holding one field more than the header.
ExceptionMessage(exc, file_path, c) ==
    CASE exc = "FileNotFoundError" ->
             "[Errno 2] No such file or directory: '" \o Str(file_path) \o "'"
      [] exc = "StopIteration"     -> ""
      [] exc = "ParserError"       ->
             LET fields == Len(split(c.line3, ","))
             IN  "Error tokenizing data. C error: Expected " \o Str(IntToStr(fields))
                    \o " fields in line 6, saw "
                    \o Str(IntToStr(fields + 1)) \o "\n"

\* A narrower handler than the one in the code: except OSError.
CatchesOnlyOSError(exc) == IsSubclass(exc, "OSError")

\* The handler of load_data: except Exception (line 101).
Catches(exc) == IsSubclass(exc, "Exception")

\* Lines 48-54: open the file and read the three preamble lines.
\* "none" when all three are read.
ReadHeaderRaises(c) ==
    IF ~c.exists THEN "FileNotFoundError"
    ELSE IF c.nlines < 3 THEN "StopIteration"
    ELSE "none"

\* Lines 52, 54: next(f).strip().split(',')
HeaderCells(line) == split(strip(line), ",")

\* Lines 57-60: indices (1-based here) of the cells of line 3 that are not blank.
valid_columns(abbr_names) ==
    SelectSeq([ i \in 1..Len(abbr_names) |-> i ],
              LAMBDA i : strip(abbr_names[i]) # <<>>)

\* The full name of column i without the substitution of lines 72-73.
FullNameAsWritten(full_names, abbr_names, i) ==
    IF i <= Len(full_names) THEN full_names[i] ELSE <<>>

\* Lines 68-73: the full name of column i, the abbreviation when it is blank
\* or when line 2 has no such field.
FullNameOf(full_names, abbr_names, i) ==
    LET full == IF i <= Len(full_names) THEN full_names[i] ELSE <<>>
    IN  IF strip(full) = <<>> THEN abbr_names[i] ELSE full

RECURSIVE FillMappings(_, _, _, _)
\* Lines 67-77: the loop over valid_columns, storing both directions.
\* maps is <<abbr_to_full, full_to_abbr>>.
FillMappings(maps, full_names, abbr_names, todo) ==
    IF todo = <<>> THEN maps
    ELSE LET i    == Head(todo)
             abbr == abbr_names[i]
             full == FullNameOf(full_names, abbr_names, i)
         IN  FillMappings(<<DictPut(maps[1], abbr, full), DictPut(maps[2], full, abbr)>>,
                          full_names, abbr_names, Tail(todo))

\* A load that keeps the entries of the previous file.
KeepOldMappings(old) == old

\* Lines 64-65: both dictionaries start empty on every load.
FreshMappings(old) == <<EmptyDict, EmptyDict>>

\* Lines 56-77 as a whole.
BuildMappings(old, c) ==
    LET full_names == HeaderCells(c.line2)
        abbr_names == HeaderCells(c.line3)
    IN  FillMappings(FreshMappings(old), full_names, abbr_names,
                     valid_columns(abbr_names))

\* Line 83: read_csv raises on a file it cannot tokenize.
ReadCsvRaises(c) == IF c.parses THEN "none" ELSE "ParserError"

\* Line 90: the test a column name must pass to stay in the table.
KeepColumn(col) == strip(col.name) # <<>> /\ ~startswith(col.name, UnnamedPrefix)

\* Lines 86-94: keep only the columns whose name passes the test.
FilterColumns(cols) == SelectSeq(cols, KeepColumn)

\* Line 97: select_dtypes(include=[np.number]).columns.tolist()
NumericColumnNames(cols) ==
    ColumnNames(SelectSeq(cols, LAMBDA col : col.numeric))

NoCall    == [kind |-> "none",     ok |-> FALSE, msg |-> "", exc |-> "none"]
Returned(ok, msg) == [kind |-> "returned", ok |-> ok, msg |-> msg, exc |-> "none"]
Raised(exc)       == [kind |-> "raised",   ok |-> FALSE, msg |-> "", exc |-> exc]

\* Lines 101-102: what the caller sees when the body raised exc.
HandleException(exc, file_path, c) ==
    IF Catches(exc) THEN Returned(FALSE, ExceptionMessage(exc, file_path, c)) ELSE Raised(exc)

\* DataHandler.load_data(file_path), the file at file_path holding c.
load_data(file_path, c) ==
    LET e1   == ReadHeaderRaises(c)
        maps == BuildMappings(<<abbr_to_full, full_to_abbr>>, c)
        e2   == ReadCsvRaises(c)
        cols == FilterColumns(read_csv(c))
    IN  /\ log_file_path' = file_path
        /\ IF e1 # "none"
           THEN /\ load_ret' = HandleException(e1, file_path, c)
                /\ UNCHANGED <<abbr_to_full, full_to_abbr, df, numeric_columns>>
           ELSE /\ abbr_to_full' = maps[1]
                /\ full_to_abbr' = maps[2]
                /\ IF e2 # "none"
                   THEN /\ load_ret' = HandleException(e2, file_path, c)
                        /\ UNCHANGED <<df, numeric_columns>>
                   ELSE /\ df' = DataFrame(cols)
                        /\ numeric_columns' = NumericColumnNames(cols)
                        /\ load_ret' = Returned(TRUE, "")

\* os.path.basename(path): the text after the last '/'.
basename(path) == LET pieces == split(path, "/") IN pieces[Len(pieces)]

\* DataHandler.get_file_name: the base name of log_file_path, '' when
\* log_file_path is None or empty.
get_file_name ==
    IF log_file_path # NoPath /\ log_file_path # <<>> THEN basename(log_file_path) ELSE <<>>

-----------------------------------------------------------------------------
(* Unit extraction *)

\* ch in s
Contains(s, ch) == IndexOf(s, ch) # 0

Unknown == <<"U", "n", "k", "n", "o", "w", "n">>

\* An extract_unit that asks only for the opening parenthesis.
extract_unit_open_only(param_name) ==
    IF Contains(param_name, "(")
    THEN split(split(param_name, "(")[2], ")")[1]
    ELSE Unknown

\* DataHandler.extract_unit: param_name.split('(')[1].split(')')[0] when both
\* parentheses occur in the name, "Unknown" otherwise.
DataHandler_extract_unit(param_name) ==
    IF Contains(param_name, "(") /\ Contains(param_name, ")")
    THEN split(split(param_name, "(")[2], ")")[1]
    ELSE Unknown

\* VisualizationPanel.extract_unit: the same text as DataHandler's.
VisualizationPanel_extract_unit(param_name) ==
    IF Contains(param_name, "(") /\ Contains(param_name, ")")
    THEN split(split(param_name, "(")[2], ")")[1]
    ELSE Unknown

\* The names extract_unit is applied to: every text of at most MaxNameLen
\* characters over a letter, a blank and the two parentheses, the example
\* 'Oil Temp (deg F)' and a name with two groups.
NameChars == {"T", " ", "(", ")"}
OilTempDegF ==
    <<"O", "i", "l", " ", "T", "e", "m", "p", " ", "(", "d", "e", "g", " ", "F", ")">>
DegF == <<"d", "e", "g", " ", "F">>
DegC == <<"d", "e", "g", " ", "C">>
\* A name with two parenthesized groups, 'Oil Temp (1) (deg F)'.
OilTemp1DegF ==
    <<"O", "i", "l", " ", "T", "e", "m", "p", " ", "(", "1", ")", " ",
      "(", "d", "e", "g", " ", "F", ")">>
UnitNames ==
    UNION { Tuples(NameChars, n) : n \in 0..MaxNameLen } \cup {OilTempDegF, OilTemp1DegF}

-----------------------------------------------------------------------------
(* Temperature conversion, in IEEE 754 double precision *)

RECURSIVE Gcd(_, _)
Gcd(a, b) == IF b = 0 THEN a ELSE Gcd(b, a % b)
Abs(n) == IF n < 0 THEN -n ELSE n

\* The rational n/d in lowest terms with a positive denominator.
Rat(n, d) ==
    LET g == Gcd(Abs(n), Abs(d))
        sgn == IF d < 0 THEN -1 ELSE 1
    IN  [num |-> sgn * (n \div g), den |-> sgn * (d \div g)]

\* A natural number is the sequence of its binary digits, the least
\* significant first and the last one 1; zero is the empty sequence.  The
\* operations on long numbers halve their work, so that they do not nest
\* deeper than the logarithm of the length.

\* Without the zeros at the significant end.
Trim(a) ==
    LET ones == { i \in 1..Len(a) : a[i] = 1 }
    IN  IF ones = {} THEN <<>>
        ELSE SubSeq(a, 1, CHOOSE i \in ones : \A j \in ones : j <= i)

\* The digits of an int, 0 <= n < 2^31.
Bits(n) == Trim([ i \in 1..31 |-> (n \div 2^(i - 1)) % 2 ])

Digit(a, i) == IF i <= Len(a) THEN a[i] ELSE 0

RECURSIVE AddDigits(_, _, _, _, _)
\* Digits lo..hi of a + b + carry * 2^(lo - 1), and the carry out of them.
AddDigits(a, b, lo, hi, carry) ==
    IF lo = hi
    THEN LET t == Digit(a, lo) + Digit(b, lo) + carry
         IN  [digits |-> <<t % 2>>, carry |-> t \div 2]
    ELSE LET mid  == (lo + hi) \div 2
             low  == AddDigits(a, b, lo, mid, carry)
             high == AddDigits(a, b, mid + 1, hi, low.carry)
         IN  [digits |-> low.digits \o high.digits, carry |-> high.carry]

BigAdd(a, b) ==
    LET n   == IF Len(a) < Len(b) THEN Len(b) ELSE Len(a)
        sum == AddDigits(a, b, 1, n, 0)
    IN  IF n = 0 THEN <<>> ELSE Trim(sum.digits \o <<sum.carry>>)

RECURSIVE SubDigits(_, _, _, _, _)
\* Digits lo..hi of a - b - borrow * 2^(lo - 1), and the borrow out of them.
SubDigits(a, b, lo, hi, borrow) ==
    IF lo = hi
    THEN LET t == Digit(a, lo) - Digit(b, lo) - borrow
         IN  [digits |-> <<(t + 2) % 2>>, borrow |-> IF t < 0 THEN 1 ELSE 0]
    ELSE LET mid  == (lo + hi) \div 2
             low  == SubDigits(a, b, lo, mid, borrow)
             high == SubDigits(a, b, mid + 1, hi, low.borrow)
         IN  [digits |-> low.digits \o high.digits, borrow |-> high.borrow]

\* a - b for a >= b
BigSub(a, b) == IF a = <<>> THEN <<>> ELSE Trim(SubDigits(a, b, 1, Len(a), 0).digits)

\* a < b
BigLess(a, b) ==
    IF Len(a) # Len(b) THEN Len(a) < Len(b)
    ELSE \E i \in 1..Len(a) :
            a[i] < b[i] /\ \A j \in (i + 1)..Len(a) : a[j] = b[j]

\* a * 2^k
ShiftLeft(a, k) == IF a = <<>> THEN <<>> ELSE [ i \in 1..k |-> 0 ] \o a

RECURSIVE BigMul(_, _)
BigMul(a, b) ==
    IF b = <<>> THEN <<>>
    ELSE IF Len(b) = 1 THEN a
    ELSE LET mid == Len(b) \div 2
         IN  BigAdd(BigMul(a, Trim(SubSeq(b, 1, mid))),
                    ShiftLeft(BigMul(a, SubSeq(b, mid + 1, Len(b))), mid))

RECURSIVE LongDivision(_, _, _)
\* Long division of (r * 2^Len(a) + a) by d, for r < d and digits a that may
\* end in zeros: the digits of the quotient as they come, the most
\* significant first, and the remainder.
LongDivision(a, d, r) ==
    IF a = <<>> THEN [digits |-> <<>>, remainder |-> r]
    ELSE IF Len(a) = 1
    THEN LET cur  == Trim(a \o r)
             fits == ~BigLess(cur, d)
         IN  [digits |-> <<IF fits THEN 1 ELSE 0>>,
              remainder |-> IF fits THEN BigSub(cur, d) ELSE cur]
    ELSE LET mid  == Len(a) \div 2
             high == LongDivision(SubSeq(a, mid + 1, Len(a)), d, r)
             low  == LongDivision(SubSeq(a, 1, mid), d, high.remainder)
         IN  [digits |-> high.digits \o low.digits, remainder |-> low.remainder]

\* The quotient and the remainder of a by d.
BigDiv(a, d) ==
    LET division == LongDivision(a, d, <<>>)
        n        == Len(division.digits)
    IN  [quotient |-> Trim([ i \in 1..n |-> division.digits[n + 1 - i] ]),
         remainder |-> division.remainder]

\* A double is [neg, man, exp]: the number man * 2^exp, negated when neg,
\* with man odd; zero is [FALSE, <<>>, 0] (the two zeros of the format
\* compare equal and are not told apart).  The temperatures of the model
\* stay far from the largest and the smallest double, so exp is not limited.
Zero == [neg |-> FALSE, man |-> <<>>, exp |-> 0]

\* How many zeros a number ends in.
LowZeros(a) == (CHOOSE i \in 1..Len(a) : a[i] = 1 /\ \A j \in 1..(i - 1) : a[j] = 0) - 1

\* The double of the number mag * 2^exp, which has at most 53 digits.
Double(neg, mag, exp) ==
    IF mag = <<>> THEN Zero
    ELSE [neg |-> neg, man |-> SubSeq(mag, LowZeros(mag) + 1, Len(mag)),
          exp |-> exp + LowZeros(mag)]

\* Round to nearest, ties to even: the double nearest to mag * 2^exp, or to
\* a number just above it when more is set (mag then has over 53 digits).
RoundToDouble(neg, mag, exp, more) ==
    LET drop  == IF Len(mag) > 53 THEN Len(mag) - 53 ELSE 0
        kept  == SubSeq(mag, drop + 1, Len(mag))
        half  == drop > 0 /\ mag[drop] = 1
        below == more \/ \E i \in 1..(drop - 1) : mag[i] = 1
        up    == half /\ (below \/ kept[1] = 1)
    IN  Double(neg, IF up THEN BigAdd(kept, <<1>>) ELSE kept, exp + drop)

\* float(n) of an int
float(n) == Double(n < 0, Bits(Abs(n)), 0)

\* x + y
FAdd(x, y) ==
    LET e == IF x.exp < y.exp THEN x.exp ELSE y.exp
        a == ShiftLeft(x.man, x.exp - e)
        b == ShiftLeft(y.man, y.exp - e)
    IN  IF x.man = <<>> THEN y
        ELSE IF y.man = <<>> THEN x
        ELSE IF x.neg = y.neg THEN RoundToDouble(x.neg, BigAdd(a, b), e, FALSE)
        ELSE IF a = b THEN Zero
        ELSE IF BigLess(b, a) THEN RoundToDouble(x.neg, BigSub(a, b), e, FALSE)
        ELSE RoundToDouble(y.neg, BigSub(b, a), e, FALSE)

\* x - y
FSub(x, y) == FAdd(x, IF y.man = <<>> THEN y ELSE [y EXCEPT !.neg = ~@])

\* x * y
FMul(x, y) ==
    RoundToDouble(x.neg # y.neg, BigMul(x.man, y.man), x.exp + y.exp, FALSE)

\* x / y for y # 0: the quotient is taken to 56 digits or more, and what the
\* division leaves decides the rounding.
FDiv(x, y) ==
    LET shift == 56 + Len(y.man)
        d     == BigDiv(ShiftLeft(x.man, shift), y.man)
    IN  IF x.man = <<>> THEN Zero
        ELSE RoundToDouble(x.neg # y.neg, d.quotient, x.exp - y.exp - shift,
                           d.remainder # <<>>)

\* A conversion with the precedence slip f - 32 * 5/9.
fahrenheit_to_celsius_slip(f_value) ==
    FSub(f_value, FDiv(FMul(float(32), float(5)), float(9)))

\* DataHandler.fahrenheit_to_celsius: (f_value - 32) * 5/9
fahrenheit_to_celsius(f_value) ==
    FDiv(FMul(FSub(f_value, float(32)), float(5)), float(9))

\* The inverse conversion the specification names: c * 9/5 + 32.
celsius_to_fahrenheit(c_value) ==
    FAdd(FDiv(FMul(c_value, float(9)), float(5)), float(32))

\* The double a number n/d with d a power of two is read as.
FloatOf(r) == FDiv(float(r.num), float(r.den))

\* The temperatures converted: whole and half degrees up to MaxTemp.
Temperatures == { Rat(n, d) : n \in (-2 * MaxTemp)..(2 * MaxTemp), d \in {1, 2} }

-----------------------------------------------------------------------------
(* The log being plotted *)

\* First index at which sub occurs in s, 0 when it does not (str.find + 1).
FindSub(s, sub) ==
    LET hits == { i \in 1..(Len(s) - Len(sub) + 1) : SubSeq(s, i, i + Len(sub) - 1) = sub }
    IN  IF hits = {} THEN 0 ELSE CHOOSE i \in hits : \A j \in hits : i <= j

\* sub in s
InStr(sub, s) == FindSub(s, sub) # 0

RECURSIVE replace(_, _, _)
\* s.replace(old, new), old not empty
replace(s, old, new) ==
    LET i == FindSub(s, old) IN
    IF i = 0 THEN s
    ELSE SubSeq(s, 1, i - 1) \o new \o replace(SubSeq(s, i + Len(old), Len(s)), old, new)

RECURSIVE Flatten(_)
\* The concatenation of a sequence of sequences.
Flatten(seqs) == IF seqs = <<>> THEN <<>> ELSE Head(seqs) \o Flatten(Tail(seqs))

\* The columns of the log that is plotted.  Six named columns:
\*   T  a time stamp without a unit, the usual X parameter
\*   O  'O (deg F)' and C 'C (deg F)', two Fahrenheit temperatures
\*   R  'R (rpm)'
\*   K  'K (deg F/s)', whose unit contains the text 'deg F'
\*   N  a text column (not numeric)
\* and ManyUnits further numeric columns u0, u1, ... whose full names
\* 'W (0)', 'W (1)', ... give each a unit of its own.
ColT == <<"T">>
ColO == <<"O">>
ColC == <<"C">>
ColR == <<"R">>
ColK == <<"K">>
ColN == <<"N">>
WithUnit(abbr, unit) == abbr \o <<" ", "(">> \o unit \o <<")">>
MainAbbr == <<ColT, ColO, ColC, ColR, ColK, ColN>>
MainFull ==
    << <<>>, WithUnit(ColO, DegF), WithUnit(ColC, DegF), WithUnit(ColR, <<"r", "p", "m">>),
       WithUnit(ColK, DegF \o <<"/", "s">>), ColN >>
WideAbbr == [ i \in 1..ManyUnits |-> <<"u">> \o IntToStr(i - 1) ]
WideFull == [ i \in 1..ManyUnits |-> WithUnit(<<"W">>, IntToStr(i - 1)) ]
PlotLog ==
    LogFile(MainFull \o WideFull, MainAbbr \o WideAbbr,
            (1..(Len(MainAbbr) + ManyUnits)) \ {Len(MainAbbr)}, TRUE)

\* The two data rows of every modelled log: the values of the column at a
\* position.
PlotLogNumbers(pos) ==
    CASE pos = 1 -> <<0, 1>>
      [] pos = 2 -> <<212, 50>>
      [] pos = 3 -> <<32, 41>>
      [] pos = 4 -> <<2500, 2400>>
      [] pos = 5 -> <<9, -4>>
      [] OTHER   -> <<pos, pos + 1>>
\* The numbers as read_csv holds them, column by column.
PlotLogTable ==
    [ pos \in 1..(Len(MainAbbr) + ManyUnits) |->
        [ r \in 1..2 |-> float(PlotLogNumbers(pos)[r]) ] ]
PlotLogValues(pos) == PlotLogTable[pos]

\* df[param]: the values of the column of that name.
Series(frame, param) ==
    LET k == CHOOSE k \in 1..Len(frame.columns) : frame.columns[k].name = param
    IN  PlotLogValues(frame.columns[k].pos)

\* The text of a list item of the control panel: abbr_to_full.get(col, col).
DisplayName(col) == IF col \in DOMAIN abbr_to_full THEN abbr_to_full[col] ELSE col

\* Arguments plot_requested is emitted with: the data of the selected items
\* of the parameter list (in the order of selectedItems(), which is not
\* always the list's) and the data of the selected X item.
WideSelection == WideAbbr
Selections ==
    { <<>>, <<ColO>>, <<ColC>>, <<ColO, ColC>>, <<ColR>>, <<ColK>>, <<ColO, ColR>>,
      <<ColO, ColR, ColK>>, <<ColN>>, <<ColN, ColO>>, WideSelection }
XChoices == {ColT, ColO}

-----------------------------------------------------------------------------
(* VisualizationPanel: figures and generate_plot *)

UnitPrefix == <<"U", "n", "i", "t", ":", " ">>

\* A figure: the subplot titles (layout.annotations, one per row), the traces
\* (data) and, for the X and Y axis of each row, the row whose axis it
\* matches (0: no 'matches').  NoFigure is None.
NoFigure ==
    [none |-> TRUE, annotations |-> <<>>, data |-> <<>>, xmatches |-> <<>>, ymatches |-> <<>>]

\* plotly.subplots.make_subplots(rows=n, cols=1, shared_xaxes=True,
\* subplot_titles=titles): the X axis of every row above the last matches the
\* last row's X axis, no Y axis matches another.
make_subplots(titles) ==
    LET n == Len(titles) IN
    [none |-> FALSE, annotations |-> titles, data |-> <<>>,
     xmatches |-> [ k \in 1..n |-> IF k < n THEN n ELSE 0 ],
     ymatches |-> [ k \in 1..n |-> 0 ]]

\* go.Scatter(x=, y=, name=) placed by add_trace(row=row, col=1).
Scatter(x_values, y_values, name, row) ==
    [name |-> name, x |-> x_values, y |-> y_values, yaxis |-> row]

\* Lines 173, 236, 276: use_celsius and "deg F" in unit
ConvertsToCelsius(celsius, unit) == celsius /\ InStr(DegF, unit)

\* fahrenheit_to_celsius of every value of the plotted log, worked out once.
CelsiusOfLogValue ==
    [ v \in { PlotLogValues(pos)[r] : pos \in 1..(Len(MainAbbr) + ManyUnits), r \in 1..2 }
        |-> fahrenheit_to_celsius(v) ]

\* Series.apply(fahrenheit_to_celsius)
apply_fahrenheit_to_celsius(values) ==
    [ i \in 1..Len(values) |->
        IF values[i] \in DOMAIN CelsiusOfLogValue THEN CelsiusOfLogValue[values[i]]
        ELSE fahrenheit_to_celsius(values[i]) ]

\* Lines 172-174: the X values, converted when the X unit asks for it.
XValues(frame, x_param, x_display, celsius) ==
    IF ConvertsToCelsius(celsius, VisualizationPanel_extract_unit(x_display))
    THEN apply_fahrenheit_to_celsius(Series(frame, x_param))
    ELSE Series(frame, x_param)

\* Lines 236-238, 276-278: the Y values of a parameter of the given unit.
YValues(frame, param, unit, celsius) ==
    IF ConvertsToCelsius(celsius, unit)
    THEN apply_fahrenheit_to_celsius(Series(frame, param))
    ELSE Series(frame, param)

\* Lines 232-240, 272-280: the title of the panel of a unit.
UnitTitle(unit, celsius) ==
    UnitPrefix \o (IF ConvertsToCelsius(celsius, unit) THEN replace(unit, DegF, DegC) ELSE unit)

\* Lines 180-186 and 192: the units of the display names, each once, in the
\* order of their first occurrence (the keys of param_units).
unit_groups(display_names) ==
    LET units  == [ i \in 1..Len(display_names) |->
                        VisualizationPanel_extract_unit(display_names[i]) ]
        firsts == SelectSeq([ i \in 1..Len(units) |-> i ],
                            LAMBDA i : \A j \in 1..(i - 1) : units[j] # units[i])
    IN  [ k \in 1..Len(firsts) |-> units[firsts[k]] ]

\* param_units[unit]: the selected positions whose display name has the unit.
param_units(display_names, unit) ==
    SelectSeq([ i \in 1..Len(display_names) |-> i ],
              LAMBDA i : VisualizationPanel_extract_unit(display_names[i]) = unit)

\* Lines 196-200: the units of the titles of the existing figure.
existing_units(fig) ==
    LET titled == SelectSeq(fig.annotations, LAMBDA text : startswith(text, UnitPrefix))
    IN  [ k \in 1..Len(titled) |-> SubSeq(titled[k], Len(UnitPrefix) + 1, Len(titled[k])) ]

\* Lines 227-250 and 268-289: the traces of the selected parameters, group
\* after group, the first group on row first_row.
NewTraces(frame, params, names, x_values, celsius, first_row) ==
    LET groups == unit_groups(names)
        GroupTraces(i) ==
            LET members == param_units(names, groups[i]) IN
            [ m \in 1..Len(members) |->
                Scatter(x_values,
                        YValues(frame, params[members[m]], groups[i], celsius),
                        names[members[m]], first_row + i - 1) ]
    IN  Flatten([ i \in 1..Len(groups) |-> GroupTraces(i) ])

\* trace.yaxis of a trace placed on a row by add_trace: 'y', 'y2', 'y3', ...
yaxis_name(row) == IF row = 1 THEN <<"y">> ELSE <<"y">> \o IntToStr(row)

RECURSIVE int(_)
\* int(text) of a text of decimal digits
int(text) ==
    IF text = <<>> THEN 0
    ELSE int(SubSeq(text, 1, Len(text) - 1)) * 10
         + (CHOOSE d \in 0..9 : DigitChars[d + 1] = text[Len(text)])

\* A copy that puts every existing trace into the first panel.
unit_index_first(yaxis) == 0

\* Lines 217-223: the unit group of an existing trace, from its yaxis.
unit_index(yaxis) == IF yaxis = <<"y">> THEN 0 ELSE int(Tail(yaxis)) - 1

\* Lines 215-230: the existing traces, each added to the row of its group.
CopyTraces(data) ==
    [ k \in 1..Len(data) |->
        [data[k] EXCEPT !.yaxis = unit_index(yaxis_name(data[k].yaxis)) + 1] ]

\* Lines 194-289: the figure with its traces, merged with the tab's figure
\* when that has traces, built afresh otherwise.
ComposeFigure(existing_fig, frame, params, names, x_values, celsius) ==
    LET groups == unit_groups(names)
        titles == [ i \in 1..Len(groups) |-> UnitTitle(groups[i], celsius) ]
        merge  == ~existing_fig.none /\ Len(existing_fig.data) > 0
        old    == IF merge THEN existing_units(existing_fig) ELSE <<>>
        kept   == IF merge THEN CopyTraces(existing_fig.data) ELSE <<>>
        grid   == make_subplots([ k \in 1..Len(old) |-> UnitPrefix \o old[k] ] \o titles)
    IN  [grid EXCEPT !.data =
            kept \o NewTraces(frame, params, names, x_values, celsius, Len(old) + 1)]

\* Line 372: the character subplot_refs[i][-1], the last digit of i + 1.
AxisSuffix(i) == (i + 1) % 10

\* Lines 364-372: 'xaxis' + suffix is no axis of a layout when the suffix is
\* '0', and the subscript raises.
LinkRaises(n) == n > 1 /\ \E i \in 1..(n - 1) : AxisSuffix(i) = 0

\* Lines 364-372: with more than one new unit group, the X axis named by the
\* suffix of each group after the first is set to match the first row's.
LinkAxes(fig, n) ==
    IF n > 1
    THEN [fig EXCEPT !.xmatches =
            [ k \in 1..Len(fig.xmatches) |->
                IF \E i \in 1..(n - 1) : AxisSuffix(i) = k THEN 1 ELSE fig.xmatches[k] ]]
    ELSE fig

\* Tabs: plot_tabs holds the tab widgets in tab order; Qt indexes them from 0.
\* A tab widget is modelled by its layout: the placeholder label, or a web
\* view and the figure it has loaded.
Placeholder == [view |-> FALSE, figure |-> NoFigure]
Showing(fig) == [view |-> TRUE, figure |-> fig]

\* A browser is a reference to a ZoomableWebEngineView object; NoBrowser is
\* None.  The object is told from the others by where it is: in the layout
\* of the tab at position at (counted from 0), or in no open tab (Detached).
Detached == 0 - 1
NoBrowser == [none |-> TRUE, at |-> Detached]
Browser(at) == [none |-> FALSE, at |-> at]

\* widget.setParent(None) for the web view in the layout of the tabs at the
\* given positions: the references to it now name a view in no tab.
Detach(browsers, positions) ==
    [ k \in DOMAIN browsers |->
        IF ~browsers[k].none /\ browsers[k].at \in positions
        THEN Browser(Detached) ELSE browsers[k] ]

\* browser.load(plot_path): the tab that holds the view shows the figure.
Load(tabs, browser, fig) ==
    [ i \in 1..Len(tabs) |-> IF i = browser.at + 1 THEN Showing(fig) ELSE tabs[i] ]

DictGet(d, key, default) == IF key \in DOMAIN d THEN d[key] ELSE default

\* f"Plot {n}"
PlotTitle(n) == <<"P", "l", "o", "t", " ">> \o IntToStr(n)

\* The outcome of the last plot request.
NoPlotCall == [kind |-> "none", value |-> FALSE]
PlotReturned(value) == [kind |-> "returned", value |-> value]
PlotSkipped == [kind |-> "skipped", value |-> FALSE]
PlotRaised == [kind |-> "raised", value |-> FALSE]

\* VisualizationPanel.generate_plot(df, selected_params,
\* selected_display_names, x_param, x_display, log_file_path, use_celsius,
\* fahrenheit_to_celsius)
generate_plot(frame, selected_params, selected_display_names, x_param, x_display, celsius) ==
    LET x_values     == XValues(frame, x_param, x_display, celsius)
        idx          == current_index
        existing_fig == DictGet(tab_figures, idx, NoFigure)
        n            == Len(unit_groups(selected_display_names))
        composed     == ComposeFigure(existing_fig, frame, selected_params,
                                      selected_display_names, x_values, celsius)
        fig          == LinkAxes(composed, n)
        browser      == DictGet(tab_plot_browsers, idx, NoBrowser)
    IN  IF selected_params = <<>>
        THEN /\ plot_ret' = PlotReturned(FALSE)
             /\ UNCHANGED <<plot_tabs, tab_plot_browsers, tab_figures, tab_x_params>>
        ELSE IF LinkRaises(n)
        THEN /\ plot_ret' = PlotRaised
             /\ UNCHANGED <<plot_tabs, tab_plot_browsers, tab_figures, tab_x_params>>
        ELSE /\ plot_ret' = PlotReturned(TRUE)
             /\ tab_figures' = DictPut(tab_figures, idx, fig)
             /\ IF ~browser.none
                THEN /\ plot_tabs' = Load(plot_tabs, browser, fig)
                     /\ UNCHANGED <<tab_plot_browsers, tab_x_params>>
                ELSE /\ plot_tabs' = [plot_tabs EXCEPT ![idx + 1] = Showing(fig)]
                     /\ tab_plot_browsers' =
                            DictPut(Detach(tab_plot_browsers, {idx}), idx, Browser(idx))
                     /\ tab_x_params' = DictPut(tab_x_params, idx, x_param)

\* The texts on_plot_requested puts on the window's placeholder label.
PleaseSelectText ==
    [says |-> "Please select at least one numeric parameter to plot", msg |-> "", file |-> <<>>]
FailedPlotText == [says |-> "Failed to generate plot", msg |-> "", file |-> <<>>]

\* A filter that lets every selected parameter through.
all_indexes(selected_params) == [ i \in 1..Len(selected_params) |-> i ]

\* Lines 97-102: the places, in order, of the selected parameters that are
\* in the window's numeric_columns.
numeric_indexes(selected_params) ==
    SelectSeq([ i \in 1..Len(selected_params) |-> i ],
              LAMBDA i : \E k \in 1..Len(window.numeric_columns) :
                             window.numeric_columns[k] = selected_params[i])

\* Enmovito.on_plot_requested: only the numeric parameters are plotted.
on_plot_requested(selected_params, selected_display_names, x_param, x_display) ==
    LET numeric == numeric_indexes(selected_params)
        numeric_params == [ k \in 1..Len(numeric) |-> selected_params[numeric[k]] ]
        numeric_display_names == [ k \in 1..Len(numeric) |-> selected_display_names[numeric[k]] ]
    IN  IF numeric_params = <<>>
        THEN /\ plot_ret' = PlotSkipped
             /\ window' = [window EXCEPT !.plot_placeholder = PleaseSelectText]
             /\ UNCHANGED <<plot_tabs, tab_plot_browsers, tab_figures, tab_x_params>>
        ELSE /\ generate_plot(window.df, numeric_params, numeric_display_names, x_param,
                              x_display, use_celsius)
             /\ window' = IF plot_ret' = PlotReturned(FALSE)
                          THEN [window EXCEPT !.plot_placeholder = FailedPlotText]
                          ELSE window

\* VisualizationPanel.clear_tab_plot for every tab of tabs, in turn.
ClearTabs(dict, tabs, cleared) ==
    [ k \in DOMAIN dict |-> IF k \in tabs THEN cleared ELSE dict[k] ]

\* Enmovito.on_temperature_unit_changed: set the preference and clear the
\* plot of every tab that shows one (regenerate_plots_with_new_unit).
on_temperature_unit_changed(celsius) ==
    LET shown == { k \in DOMAIN tab_plot_browsers :
                     ~tab_plot_browsers[k].none /\ k >= 0 /\ k < Len(plot_tabs) }
    IN  /\ use_celsius' = celsius
        /\ tab_plot_browsers' =
              ClearTabs(Detach(tab_plot_browsers, shown), shown, NoBrowser)
        /\ tab_figures' =
              [ k \in (DOMAIN tab_figures) \cup shown |->
                  IF k \in shown THEN NoFigure ELSE tab_figures[k] ]
        /\ plot_tabs' =
              [ i \in 1..Len(plot_tabs) |->
                  IF (i - 1) \in shown THEN Placeholder ELSE plot_tabs[i] ]
        /\ UNCHANGED <<tab_text, current_index, tab_x_params>>

\* VisualizationPanel.clear_tab_plot(tab_index): the layout of the tab at
\* that position is emptied and given a placeholder, the tab's entries of
\* tab_plot_browsers and tab_figures become None; no tab there, no change.
clear_tab_plot(tab_index) ==
    IF tab_index >= 0 /\ tab_index < Len(plot_tabs)
    THEN /\ tab_plot_browsers' =
               DictPut(Detach(tab_plot_browsers, {tab_index}), tab_index, NoBrowser)
         /\ tab_figures' = DictPut(tab_figures, tab_index, NoFigure)
         /\ plot_tabs' = [plot_tabs EXCEPT ![tab_index + 1] = Placeholder]
    ELSE UNCHANGED <<tab_plot_browsers, tab_figures, plot_tabs>>

\* What check_x_axis_change returned, and where it stands while its
\* XAxisChangeDialog is open for the tab at a position.
XAxisChecked(value) == [kind |-> "checked", value |-> value]
XAxisChangeDialog(tab_index) == [kind |-> "dialog", value |-> FALSE, tab |-> tab_index]

\* VisualizationPanel.check_x_axis_change(current_tab_index, x_param,
\* x_display) up to dialog.exec_(): when the tab holds a figure and another
\* X parameter the dialog opens, otherwise the call returns True.
check_x_axis_change(current_tab_index, x_param) ==
    /\ plot_ret' =
          IF /\ current_tab_index \in DOMAIN tab_figures
             /\ ~tab_figures[current_tab_index].none
             /\ current_tab_index \in DOMAIN tab_x_params
             /\ tab_x_params[current_tab_index] # x_param
          THEN XAxisChangeDialog(current_tab_index)
          ELSE XAxisChecked(TRUE)
    /\ UNCHANGED <<tab_plot_browsers, tab_figures, plot_tabs>>

\* Lines 586-593, once dialog.exec_() has returned: rejected, the call
\* returns False; accepted, it clears the tab's plot and returns True.
check_x_axis_change_result(accepted) ==
    IF ~accepted
    THEN /\ plot_ret' = XAxisChecked(FALSE)
         /\ UNCHANGED <<tab_plot_browsers, tab_figures, plot_tabs>>
    ELSE /\ clear_tab_plot(plot_ret.tab)
         /\ plot_ret' = XAxisChecked(TRUE)

\* A tab numbering that forgets to count the tab being added.
CountsOpenTabs(count) == count

\* Line 520: the number in the title of a tab added to count tabs.
NewTabNumber(count) == count + 1

\* VisualizationPanel.add_plot_tab: a new tab widget with a placeholder is
\* appended, titled, made current, and given empty dictionary entries.
add_plot_tab ==
    LET tab       == Placeholder
        tab_index == Len(plot_tabs)
    IN  /\ plot_tabs' = Append(plot_tabs, tab)
        /\ tab_text' = Append(tab_text, PlotTitle(NewTabNumber(Len(plot_tabs))))
        /\ current_index' = tab_index
        /\ tab_plot_browsers' = DictPut(tab_plot_browsers, tab_index, NoBrowser)
        /\ tab_figures' = DictPut(tab_figures, tab_index, NoFigure)
        /\ UNCHANGED tab_x_params

\* del d[key]
DictDel(d, key) == [ k \in (DOMAIN d) \ {key} |-> d[k] ]

\* A guard that lets every tab be closed.
RefusesNoTab(count) == count <= 0

\* Line 541: the last tab is not closed.
RefusesLastTab(count) == count <= 1

\* QTabWidget.removeTab(index) on the tabs in order: the sequence without
\* the tab at index, unchanged when there is no such tab.
removeTab(tabs, index) ==
    IF index >= 0 /\ index < Len(tabs)
    THEN SubSeq(tabs, 1, index) \o SubSeq(tabs, index + 2, Len(tabs))
    ELSE tabs

\* The references to web views after removeTab(index) of one of count tabs:
\* the view of the removed tab is in no open tab, the views of the tabs after
\* it are one position down.
Moved(browsers, index, count) ==
    IF index < 0 \/ index >= count THEN browsers
    ELSE [ k \in DOMAIN browsers |->
             IF browsers[k].none \/ browsers[k].at < index THEN browsers[k]
             ELSE IF browsers[k].at = index THEN Browser(Detached)
             ELSE Browser(browsers[k].at - 1) ]

\* QTabWidget.currentIndex() after removeTab(index) of one of count tabs:
\* the current tab stays current; when it is the one removed, the tab after
\* it becomes current, or the new last tab when there is none after it.
CurrentAfterRemove(current, index, count) ==
    IF index < 0 \/ index >= count THEN current
    ELSE IF index < current THEN current - 1
    ELSE IF index = current /\ index = count - 1 THEN current - 1
    ELSE current

RECURSIVE RenumberBrowsers(_, _, _)
\* Lines 552-557, from round i on: the entry of key i + 1, when there is one,
\* is moved to key i, for every tab position i below count.
RenumberBrowsers(browsers, i, count) ==
    IF i >= count THEN browsers
    ELSE IF (i + 1) \in DOMAIN browsers
         THEN RenumberBrowsers(DictPut(DictDel(browsers, i + 1), i, browsers[i + 1]),
                               i + 1, count)
         ELSE RenumberBrowsers(browsers, i + 1, count)

\* VisualizationPanel.close_plot_tab(index)
close_plot_tab(index) ==
    IF RefusesLastTab(Len(plot_tabs))
    THEN UNCHANGED <<plot_tabs, tab_text, current_index, tab_plot_browsers,
                     tab_figures, tab_x_params>>
    ELSE LET remaining == removeTab(plot_tabs, index)
         IN  /\ plot_tabs' = remaining
             /\ tab_text' = [ i \in 1..Len(remaining) |-> PlotTitle(i) ]
             /\ current_index' = CurrentAfterRemove(current_index, index, Len(plot_tabs))
             /\ tab_plot_browsers' =
                    RenumberBrowsers(Moved(DictDel(tab_plot_browsers, index), index,
                                           Len(plot_tabs)),
                                     0, Len(remaining))
             /\ UNCHANGED <<tab_figures, tab_x_params>>

-----------------------------------------------------------------------------
(* Enmovito: the window and its control panel *)

\* The text of the plot_placeholder label: what it says, the message and the
\* file name it carries.
InitialText == [says |-> "Select a log file and parameters to visualize",
                msg |-> "", file |-> <<>>]
LoadedText(file_path) ==
    [says |-> "Data loaded from {file}\nSelect parameters and click 'Generate Plot'",
     msg |-> "", file |-> basename(file_path)]
ErrorText(error_message) ==
    [says |-> "Error loading file: {msg}", msg |-> error_message, file |-> <<>>]

NoFileSelected == <<"N", "o", " ", "f", "i", "l", "e", " ", "s", "e", "l", "e", "c", "t", "e", "d">>

\* ShiftSelectListWidget.last_selected_item: None, the item at a row of the
\* list, or an item the list has deleted since.
NoItem == [none |-> TRUE, row |-> 0, deleted |-> FALSE]
ItemAt(row) == [none |-> FALSE, row |-> row, deleted |-> FALSE]
DeletedItem == [none |-> FALSE, row |-> 0, deleted |-> TRUE]

\* ControlPanel.categories: the abbreviated names behind each category
\* button (the button's category_params).
categories ==
    [ GPS |->
        << <<"L", "a", "t", "i", "t", "u", "d", "e">>,
           <<"L", "o", "n", "g", "i", "t", "u", "d", "e">>,
           <<"A", "l", "t", "G", "P", "S">>,
           <<"G", "n", "d", "S", "p", "d">>,
           <<"T", "R", "K">> >>,
      Altitude |->
        << <<"A", "l", "t", "P">>,
           <<"A", "l", "t", "I", "n", "d">>,
           <<"V", "S", "p", "d">>,
           <<"A", "G", "L">> >>,
      Attitude |->
        << <<"P", "i", "t", "c", "h">>,
           <<"R", "o", "l", "l">>,
           <<"H", "D", "G">> >>,
      Engine |->
        << <<"E", "1", " ", "R", "P", "M">>,
           <<"E", "1", " ", "M", "A", "P">>,
           <<"E", "1", " ", "%", "P", "w", "r">>,
           <<"E", "1", " ", "F", "F", "l", "o", "w">>,
           <<"E", "1", " ", "O", "i", "l", "T">>,
           <<"E", "1", " ", "O", "i", "l", "P">> >>,
      Temperature |->
        << <<"E", "1", " ", "C", "H", "T", "1">>,
           <<"E", "1", " ", "C", "H", "T", "2">>,
           <<"E", "1", " ", "C", "H", "T", "3">>,
           <<"E", "1", " ", "C", "H", "T", "4">>,
           <<"E", "1", " ", "C", "H", "T", "5">>,
           <<"E", "1", " ", "C", "H", "T", "6">>,
           <<"E", "1", " ", "E", "G", "T", "1">>,
           <<"E", "1", " ", "E", "G", "T", "2">>,
           <<"E", "1", " ", "E", "G", "T", "3">>,
           <<"E", "1", " ", "E", "G", "T", "4">>,
           <<"E", "1", " ", "E", "G", "T", "5">>,
           <<"E", "1", " ", "E", "G", "T", "6">> >>,
      Electrical |->
        << <<"V", "o", "l", "t", "s", "1">>,
           <<"V", "o", "l", "t", "s", "2">>,
           <<"A", "m", "p", "s", "1">> >> ]

\* current_y_filter and current_x_filter before a category is chosen (None).
NoFilter == "None"

\* The text of every category button, as set up: its category.
ButtonTexts == [ cat \in DOMAIN categories |-> cat ]

\* ControlPanel after setup_control_panel: param_list and x_axis_list are
\* sequences of items [text, data, italic]; param_selected is the set of
\* selected rows of param_list, x_selected the selected row of x_axis_list
\* (rows counted from 1, 0: none); param_hidden and x_hidden are the hidden
\* rows of the two lists; category_buttons and x_category_buttons hold the
\* texts of the category buttons; enabled is the state of the plot button
\* and the five list buttons.
InitialControlPanel ==
    [param_list |-> <<>>, x_axis_list |-> <<>>, param_selected |-> {},
     x_selected |-> 0, last_selected_item |-> NoItem, param_hidden |-> {},
     x_hidden |-> {}, current_y_filter |-> NoFilter, current_x_filter |-> NoFilter,
     category_buttons |-> ButtonTexts, x_category_buttons |-> ButtonTexts,
     enabled |-> FALSE, file_label |-> NoFileSelected]

UpperCase == <<"A", "B", "C", "F", "G", "K", "L", "N", "O", "R", "T", "U", "W">>
LowerCase == <<"a", "b", "c", "f", "g", "k", "l", "n", "o", "r", "t", "u", "w">>
\* str.lower() over the letters of the modelled names.
lower(s) ==
    [ i \in 1..Len(s) |->
        IF IndexOf(UpperCase, s[i]) # 0 THEN LowerCase[IndexOf(UpperCase, s[i])] ELSE s[i] ]

LclTime == <<"l", "c", "l", " ", "t", "i", "m", "e">>

\* Lines 517-525 of control_panel.py: the row of the first column named
\* 'Lcl Time' in any case, 0 when there is none.
LclTimeRow(all_columns) ==
    LET rows == { i \in 1..Len(all_columns) : lower(all_columns[i]) = LclTime }
    IN  IF rows = {} THEN 0 ELSE CHOOSE i \in rows : \A j \in rows : i <= j

\* Lines 491-501: the items of a list, one per column.
ListItems(all_columns, display_columns, numeric) ==
    [ i \in 1..Len(all_columns) |->
        [text |-> display_columns[i], data |-> all_columns[i],
         italic |-> ~\E k \in 1..Len(numeric) : numeric[k] = all_columns[i]] ]

\* DataHandler.get_display_names: abbr_to_full.get(col, col) of each column.
get_display_names(all_columns, mapping) ==
    [ i \in 1..Len(all_columns) |->
        IF all_columns[i] \in DOMAIN mapping THEN mapping[all_columns[i]] ELSE all_columns[i] ]

\* ControlPanel.update_parameter_list: both lists are cleared and filled
\* again with items that are not hidden (which drops their selection and
\* deletes their items, the one last_selected_item refers to among them),
\* the X list selects 'Lcl Time' when there is such a column, and the
\* buttons are enabled.  The filters and the category buttons stay.
update_parameter_list(panel, all_columns, numeric, mapping) ==
    LET items == ListItems(all_columns, get_display_names(all_columns, mapping), numeric)
    IN  [panel EXCEPT !.param_list = items, !.x_axis_list = items,
                      !.param_selected = {}, !.x_selected = LclTimeRow(all_columns),
                      !.last_selected_item = IF @.none THEN @ ELSE DeletedItem,
                      !.param_hidden = {}, !.x_hidden = {},
                      !.enabled = TRUE]

\* An Enmovito.load_data that refreshes the window whatever the outcome.
RefreshesAlways(success) == TRUE

\* Line 255 of enmovito.py: if success
RefreshesWindow(success) == success

\* Enmovito.load_data(file_path), the file at file_path holding c, after
\* select_file has stored the path and set the file label (lines 246-249).
Enmovito_load_data(file_path, c) ==
    /\ load_data(file_path, c)
    /\ LET success == load_ret'.kind = "returned" /\ load_ret'.ok
           labelled == [control_panel EXCEPT !.file_label = basename(file_path)]
       IN  IF RefreshesWindow(success)
           THEN /\ window' = [df |-> df', numeric_columns |-> numeric_columns',
                              log_file_path |-> file_path,
                              plot_placeholder |-> LoadedText(file_path)]
                /\ control_panel' =
                      update_parameter_list(labelled, ColumnNames(df'.columns),
                                            numeric_columns', abbr_to_full')
           ELSE /\ window' = [window EXCEPT !.log_file_path = file_path,
                                           !.plot_placeholder = ErrorText(load_ret'.msg)]
                /\ control_panel' = labelled

-----------------------------------------------------------------------------
(* Specifications *)

panelVars == <<plot_tabs, tab_text, current_index, tab_plot_browsers,
               tab_figures, tab_x_params, plot_ret, last_plot>>

windowVars == <<window, control_panel>>

vars == <<df, log_file_path, numeric_columns, abbr_to_full, full_to_abbr,
          use_celsius, load_ret, last_file, prev_abbrs, held_path, plot_tabs, tab_text,
          current_index, tab_plot_browsers, tab_figures, tab_x_params, plot_ret, last_plot,
          window, control_panel, fn_arg, fn_res>>

InitHandler ==
    /\ df = DfNone
    /\ log_file_path = NoPath
    /\ numeric_columns = <<>>
    /\ abbr_to_full = EmptyDict
    /\ full_to_abbr = EmptyDict
    /\ use_celsius = FALSE
    /\ load_ret = NoCall
    /\ last_file = MissingFile
    /\ prev_abbrs = {}
    /\ held_path = IF df.none THEN NoPath ELSE log_file_path

InitFn ==
    /\ fn_arg = <<>>
    /\ fn_res = <<>>

NoPlot ==
    [done |-> FALSE, selected |-> <<>>, x_param |-> <<>>, celsius |-> FALSE,
     tab |-> 0, before |-> 0, requested |-> FALSE, shown |-> <<>>, params |-> <<>>,
     names |-> <<>>]

\* VisualizationPanel.__init__ and setup_viz_panel: empty dictionaries, then
\* add_plot_tab for the first tab.
InitPanel ==
    /\ plot_tabs = <<Placeholder>>
    /\ tab_text = <<PlotTitle(1)>>
    /\ current_index = 0
    /\ tab_plot_browsers = DictPut(EmptyDict, 0, NoBrowser)
    /\ tab_figures = DictPut(EmptyDict, 0, NoFigure)
    /\ tab_x_params = EmptyDict
    /\ plot_ret = NoPlotCall
    /\ last_plot = NoPlot

\* Enmovito.__init__ and ControlPanel.setup_control_panel: no data, empty
\* lists, 'No file selected', the buttons disabled.  Enmovito.df,
\* numeric_columns and log_file_path are not assigned before the first
\* load; they are read only after one.
InitWindow ==
    /\ window = [df |-> DfNone, numeric_columns |-> <<>>, log_file_path |-> NoPath,
                 plot_placeholder |-> InitialText]
    /\ control_panel = InitialControlPanel

Init == InitHandler /\ InitFn /\ InitPanel /\ InitWindow

\* Enmovito.select_file with the file at p, which holds c, chosen in the
\* dialog, with the history of the call recorded.
CallLoadData(p, c) ==
    /\ Enmovito_load_data(p, c)
    /\ last_file' = c
    /\ prev_abbrs' = DOMAIN abbr_to_full
    /\ held_path' = IF load_ret'.kind = "returned" /\ load_ret'.ok THEN p ELSE held_path

\* A load of a file without a usable preamble.
LoadFailingFile ==
    \E p \in Paths, c \in FailingFiles : CallLoadData(p, c)

\* A load of a file with three preamble lines: line 3 has n cells, line 2 has
\* m cells, any set of columns holds numbers, the data rows parse or not.
LoadLogFile ==
    \E p \in Paths, n \in 2..MaxCols :
        \E m \in 1..n, num \in SUBSET (1..n), ok \in BOOLEAN :
            \E f \in Tuples(FullCells, m), a \in Tuples(AbbrCells, n) :
                CallLoadData(p, LogFile(f, a, num, ok))

\* A load of a file whose MaxCols columns are all named and numeric.
LoadNamedFile ==
    \E p \in Paths, ok \in BOOLEAN :
        \E ed \in Editions, a \in Tuples(NamedAbbrCells, MaxCols) :
            CallLoadData(p, NamedFile(ed, a, ok))

\* The first file selected in a fresh window, over every file of the model.
FirstLoad ==
    /\ log_file_path = NoPath
    /\ (LoadFailingFile \/ LoadLogFile)
    /\ UNCHANGED <<use_celsius, fn_arg, fn_res>>
    /\ UNCHANGED panelVars

SpecFirstLoad == Init /\ [][FirstLoad]_vars

\* Any sequence of file selections, over the files whose columns are all named.
LoadAgain ==
    /\ (LoadFailingFile \/ LoadNamedFile)
    /\ UNCHANGED <<use_celsius, fn_arg, fn_res>>
    /\ UNCHANGED panelVars

SpecLoads == Init /\ [][LoadAgain]_vars

NotCalled == [done |-> FALSE]

\* extract_unit applied to one name, by both classes.
InitUnit ==
    /\ InitHandler /\ InitPanel /\ InitWindow
    /\ fn_arg \in UnitNames
    /\ fn_res = NotCalled

CallExtractUnit ==
    /\ ~fn_res.done
    /\ fn_res' = [done |-> TRUE,
                  dh |-> DataHandler_extract_unit(fn_arg),
                  vp |-> VisualizationPanel_extract_unit(fn_arg)]
    /\ UNCHANGED <<df, log_file_path, numeric_columns, abbr_to_full, full_to_abbr,
                   use_celsius, load_ret, last_file, prev_abbrs, held_path, fn_arg>>
    /\ UNCHANGED panelVars
    /\ UNCHANGED windowVars

SpecUnit == InitUnit /\ [][CallExtractUnit]_vars

\* fahrenheit_to_celsius applied to one temperature, and converted back.
InitTemp ==
    /\ InitHandler /\ InitPanel /\ InitWindow
    /\ fn_arg \in Temperatures
    /\ fn_res = NotCalled

CallConvert ==
    /\ ~fn_res.done
    /\ fn_res' = [done |-> TRUE,
                  celsius |-> fahrenheit_to_celsius(FloatOf(fn_arg)),
                  back |-> celsius_to_fahrenheit(fahrenheit_to_celsius(FloatOf(fn_arg)))]
    /\ UNCHANGED <<df, log_file_path, numeric_columns, abbr_to_full, full_to_abbr,
                   use_celsius, load_ret, last_file, prev_abbrs, held_path, fn_arg>>
    /\ UNCHANGED panelVars
    /\ UNCHANGED windowVars

SpecTemp == InitTemp /\ [][CallConvert]_vars

\* The application after a successful load of the plotted log: DataHandler
\* holds what load_data builds from it, the panel has its first tab.
InitPlot ==
    /\ df = DataFrame(FilterColumns(read_csv(PlotLog)))
    /\ numeric_columns = NumericColumnNames(FilterColumns(read_csv(PlotLog)))
    /\ abbr_to_full = BuildMappings(<<EmptyDict, EmptyDict>>, PlotLog)[1]
    /\ full_to_abbr = BuildMappings(<<EmptyDict, EmptyDict>>, PlotLog)[2]
    /\ log_file_path = <<"d", "/", "a">>
    /\ use_celsius = FALSE
    /\ load_ret = Returned(TRUE, "")
    /\ last_file = PlotLog
    /\ prev_abbrs = {}
    /\ held_path = IF df.none THEN NoPath ELSE log_file_path
    /\ InitFn
    /\ InitPanel
    /\ window = [df |-> df, numeric_columns |-> numeric_columns,
                 log_file_path |-> log_file_path,
                 plot_placeholder |-> LoadedText(log_file_path)]
    /\ control_panel =
          update_parameter_list([InitialControlPanel EXCEPT !.file_label = basename(log_file_path)],
                                ColumnNames(df.columns), numeric_columns, abbr_to_full)

\* The number of panels the current tab's figure has.
PanelsShown == Len(DictGet(tab_figures, current_index, NoFigure).annotations)

\* Enmovito.on_plot_requested, the slot of plot_requested, called with the
\* data and the text of the selected items and of the X item, and what the
\* call did recorded in last_plot.  The slot does not touch the control
\* panel.  Parameters are added to a figure as long as it stays within
\* MaxPanels panels.
PlotRequested ==
    \E sel \in Selections, x \in XChoices :
        /\ PanelsShown = 0 \/ PanelsShown + Len(sel) <= MaxPanels
        /\ on_plot_requested(sel, [ i \in 1..Len(sel) |-> DisplayName(sel[i]) ], x,
                             DisplayName(x))
        /\ last_plot' =
              LET shown   == [ i \in 1..Len(sel) |-> DisplayName(sel[i]) ]
                  passed  == numeric_indexes(sel)
                  request == [NoPlot EXCEPT !.requested = TRUE, !.selected = sel,
                                            !.shown = shown,
                                            !.params = [ k \in 1..Len(passed) |-> sel[passed[k]] ],
                                            !.names = [ k \in 1..Len(passed) |-> shown[passed[k]] ]]
              IN  IF plot_ret'.kind = "returned" /\ plot_ret'.value
                  THEN [request EXCEPT !.done = TRUE, !.x_param = x, !.celsius = use_celsius,
                                       !.tab = current_index,
                                       !.before = Len(DictGet(tab_figures, current_index,
                                                              NoFigure).data)]
                  ELSE request
        /\ UNCHANGED <<df, log_file_path, numeric_columns, abbr_to_full, full_to_abbr,
                       use_celsius, load_ret, last_file, prev_abbrs, held_path,
                       tab_text, current_index, control_panel, fn_arg, fn_res>>

\* A click on one of the temperature radio buttons.
TemperatureUnitChanged ==
    \E celsius \in BOOLEAN :
        /\ on_temperature_unit_changed(celsius)
        /\ last_plot' = NoPlot
        /\ UNCHANGED <<df, log_file_path, numeric_columns, abbr_to_full, full_to_abbr,
                       load_ret, last_file, prev_abbrs, held_path, plot_ret, window,
                       control_panel, fn_arg, fn_res>>

\* The files the window is given: none, too short, or two named columns.
WindowAbbrCells == { <<<<"A">>, <<"B">>>>, <<<<"B">>, <<"A">>>>, <<<<"A">>, <<"A">>>> }

\* Enmovito.select_file with a file chosen in the dialog.
SelectFile ==
    /\ \/ LoadFailingFile
       \/ \E p \in Paths, ok \in BOOLEAN, ed \in Editions, a \in WindowAbbrCells :
              CallLoadData(p, NamedFile(ed, a, ok))
    /\ UNCHANGED <<use_celsius, fn_arg, fn_res>>
    /\ UNCHANGED panelVars

\* The frame of the handlers of the control panel's lists.
listFrame == <<df, log_file_path, numeric_columns, abbr_to_full, full_to_abbr,
               use_celsius, load_ret, window, fn_arg, fn_res, last_file, prev_abbrs,
               held_path, plot_tabs, tab_text, current_index, tab_plot_browsers,
               tab_figures, tab_x_params, plot_ret, last_plot>>

\* QListWidget.mousePressEvent in MultiSelection mode: the row toggles,
\* whatever the modifiers.
Toggle(selected, row) == IF row \in selected THEN selected \ {row} ELSE selected \cup {row}

\* The rows of a list that are shown: a click lands only on these.
VisibleRows(list, hidden) == (1..Len(list)) \ hidden

\* ShiftSelectListWidget.mousePressEvent with the left button on a row of
\* the parameter list, without the shift key: the row toggles and its item
\* becomes last_selected_item.
ClickParameter ==
    \E row \in VisibleRows(control_panel.param_list, control_panel.param_hidden) :
        /\ control_panel' =
              [control_panel EXCEPT !.param_selected = Toggle(@, row),
                                    !.last_selected_item = ItemAt(row)]
        /\ UNCHANGED listFrame

\* ShiftSelectListWidget.mousePressEvent with the left button and the shift
\* key on a row.  With a last_selected_item every row between its row and
\* the clicked one that is not hidden is selected; with none the click is an
\* ordinary one.  self.row() of an item the list has deleted raises
\* RuntimeError before anything is changed.
ShiftClickParameter ==
    \E row \in VisibleRows(control_panel.param_list, control_panel.param_hidden) :
        LET last == control_panel.last_selected_item IN
        /\ control_panel' =
              IF last.none
              THEN [control_panel EXCEPT !.param_selected = Toggle(@, row),
                                         !.last_selected_item = ItemAt(row)]
              ELSE IF last.deleted
              THEN control_panel
              ELSE LET start_index == IF row < last.row THEN row ELSE last.row
                       end_index   == IF row < last.row THEN last.row ELSE row
                   IN  [control_panel EXCEPT
                           !.param_selected =
                               @ \cup ((start_index..end_index) \ control_panel.param_hidden),
                           !.last_selected_item = ItemAt(row)]
        /\ UNCHANGED listFrame

\* ControlPanel.select_all_visible_parameters ("Select All Visible"): the
\* selection is cleared, then every row that is not hidden is selected.
SelectAllVisibleParameters ==
    /\ control_panel.enabled
    /\ control_panel' =
          [control_panel EXCEPT !.param_selected =
              VisibleRows(control_panel.param_list, control_panel.param_hidden)]
    /\ UNCHANGED listFrame

\* ControlPanel.clear_parameter_selection ("Clear Selection").
ClearParameterSelection ==
    /\ control_panel.enabled
    /\ control_panel' = [control_panel EXCEPT !.param_selected = {}]
    /\ UNCHANGED listFrame

\* A click on a row of the X-axis list (single selection).
ClickXParameter ==
    \E row \in VisibleRows(control_panel.x_axis_list, control_panel.x_hidden) :
        /\ control_panel' = [control_panel EXCEPT !.x_selected = row]
        /\ UNCHANGED listFrame

\* ControlPanel.clear_x_parameter_selection ("Clear Selection" of the X list).
ClearXParameterSelection ==
    /\ control_panel.enabled
    /\ control_panel' = [control_panel EXCEPT !.x_selected = 0]
    /\ UNCHANGED listFrame

\* Lines 348-354 and 391-397: the category's names, each replaced by its
\* full name when DataHandler.abbr_to_full has one.
full_params(abbr_params) ==
    { IF abbr_params[i] \in DOMAIN abbr_to_full THEN abbr_to_full[abbr_params[i]]
      ELSE abbr_params[i] : i \in 1..Len(abbr_params) }

\* Lines 362-368 and 405-411: the rows whose text is not among the names.
HiddenRows(list, names) == { i \in 1..Len(list) : list[i].text \notin names }

\* Lines 370-375 and 413-418: the button whose category is category_name
\* reads '[category]', every other button its category.
MarkButton(category_name) ==
    [ cat \in DOMAIN categories |->
        IF cat = category_name THEN "[" \o cat \o "]" ELSE cat ]

\* ControlPanel.show_all_parameters ("Show All" of the parameter list).
ShowAllParameters ==
    /\ control_panel.enabled
    /\ control_panel' = [control_panel EXCEPT !.param_hidden = {},
                                              !.category_buttons = ButtonTexts,
                                              !.current_y_filter = NoFilter]
    /\ UNCHANGED listFrame

\* ControlPanel.show_all_x_parameters ("Show All" of the X list).
ShowAllXParameters ==
    /\ control_panel.enabled
    /\ control_panel' = [control_panel EXCEPT !.x_hidden = {},
                                              !.x_category_buttons = ButtonTexts,
                                              !.current_x_filter = NoFilter]
    /\ UNCHANGED listFrame

\* ControlPanel.select_category, the slot of the category buttons of the
\* parameter list (enabled from the start): category_name is the text the
\* pressed button reads at the time.
SelectCategory ==
    \E sender \in DOMAIN categories :
        LET category_name == control_panel.category_buttons[sender] IN
        /\ control_panel' =
              IF control_panel.current_y_filter = category_name
              THEN [control_panel EXCEPT !.param_hidden = {},
                                         !.category_buttons = ButtonTexts,
                                         !.current_y_filter = NoFilter]
              ELSE [control_panel EXCEPT
                       !.current_y_filter = category_name,
                       !.param_hidden =
                           HiddenRows(control_panel.param_list,
                                      full_params(categories[sender])),
                       !.category_buttons = MarkButton(category_name)]
        /\ UNCHANGED listFrame

\* ControlPanel.select_x_category, the slot of the category buttons of the
\* X list.
SelectXCategory ==
    \E sender \in DOMAIN categories :
        LET category_name == control_panel.x_category_buttons[sender] IN
        /\ control_panel' =
              IF control_panel.current_x_filter = category_name
              THEN [control_panel EXCEPT !.x_hidden = {},
                                         !.x_category_buttons = ButtonTexts,
                                         !.current_x_filter = NoFilter]
              ELSE [control_panel EXCEPT
                       !.current_x_filter = category_name,
                       !.x_hidden =
                           HiddenRows(control_panel.x_axis_list,
                                      full_params(categories[sender])),
                       !.x_category_buttons = MarkButton(category_name)]
        /\ UNCHANGED listFrame

\* QListWidget.selectedItems(): the selected rows, in an order Qt does not
\* specify.
selectedItems(rows) ==
    { order \in [1..Cardinality(rows) -> rows] :
        \A i, j \in 1..Cardinality(rows) : order[i] = order[j] => i = j }

\* ControlPanel.on_plot_button_clicked ("Generate Plot"): without an X item
\* nothing happens; otherwise plot_requested is emitted with the data and
\* text of the selected items and of the X item, Enmovito.on_plot_requested
\* runs, and the selection of the parameter list is cleared (unless the slot
\* raised and the exception ended the handler).  Parameters are added to a
\* figure as long as it stays within MaxTabTraces traces.
PlotButtonClicked ==
    /\ control_panel.enabled
    /\ Len(DictGet(tab_figures, current_index, NoFigure).data)
          + Cardinality(control_panel.param_selected) <= MaxTabTraces
    /\ IF control_panel.x_selected = 0
       THEN UNCHANGED <<window, control_panel, plot_tabs, tab_plot_browsers, tab_figures,
                        tab_x_params, plot_ret>>
       ELSE \E selected_items \in selectedItems(control_panel.param_selected) :
              LET item(i) == control_panel.param_list[selected_items[i]]
                  x_item  == control_panel.x_axis_list[control_panel.x_selected]
              IN  /\ on_plot_requested([ i \in 1..Len(selected_items) |-> item(i).data ],
                                       [ i \in 1..Len(selected_items) |-> item(i).text ],
                                       x_item.data, x_item.text)
                  /\ \/ control_panel' = [control_panel EXCEPT !.param_selected = {}]
                     \/ plot_ret' = PlotRaised /\ control_panel' = control_panel
    /\ UNCHANGED <<df, log_file_path, numeric_columns, abbr_to_full, full_to_abbr,
                   use_celsius, load_ret, last_file, prev_abbrs, held_path, tab_text,
                   current_index, last_plot, fn_arg, fn_res>>

NextWindow ==
    \/ SelectFile
    \/ ClickParameter
    \/ ShiftClickParameter
    \/ SelectAllVisibleParameters
    \/ ClearParameterSelection
    \/ ClickXParameter
    \/ ClearXParameterSelection

SpecWindow == Init /\ [][NextWindow]_vars

\* Enmovito.select_file with the log 'd/a' chosen in the dialog: its columns
\* are A and Latitude, with the full names F and G.
Latitude == categories.GPS[1]
SelectLogFile ==
    /\ CallLoadData(<<"d", "/", "a">>, NamedFile("e1", <<<<"A">>, Latitude>>, TRUE))
    /\ UNCHANGED <<use_celsius, fn_arg, fn_res>>
    /\ UNCHANGED panelVars

\* The lists of the control panel at work: a log is loaded, categories are
\* chosen and parameters selected.
NextControls ==
    \/ SelectLogFile
    \/ ClickParameter
    \/ ShiftClickParameter
    \/ SelectAllVisibleParameters
    \/ ClearParameterSelection
    \/ ShowAllParameters
    \/ SelectCategory
    \/ ClickXParameter
    \/ ClearXParameterSelection
    \/ ShowAllXParameters
    \/ SelectXCategory

SpecControls == Init /\ [][NextControls]_vars

\* The plot button at work: a log is loaded, parameters are selected and
\* plotted.
NextPlotButton ==
    \/ SelectLogFile
    \/ ClickParameter
    \/ ClickXParameter
    \/ ClearXParameterSelection
    \/ PlotButtonClicked

SpecPlotButton == Init /\ [][NextPlotButton]_vars

NextPlot == PlotRequested \/ TemperatureUnitChanged

\* The frame of the tab actions: everything but the panel's tabs.
restVars == <<df, log_file_path, numeric_columns, abbr_to_full, full_to_abbr, use_celsius,
              load_ret, last_file, prev_abbrs, held_path, plot_ret, last_plot, window,
              control_panel, fn_arg, fn_res>>

\* A click on the "+" corner button.
AddPlotTab ==
    /\ Len(plot_tabs) < MaxTabs
    /\ add_plot_tab
    /\ UNCHANGED restVars

\* A click on the close button of a tab (tabCloseRequested).
ClosePlotTab ==
    \E index \in 0..(Len(plot_tabs) - 1) :
        /\ close_plot_tab(index)
        /\ UNCHANGED restVars

\* A click on another tab.
SelectTab ==
    \E index \in 0..(Len(plot_tabs) - 1) :
        /\ index # current_index
        /\ current_index' = index
        /\ UNCHANGED <<plot_tabs, tab_text, tab_plot_browsers, tab_figures, tab_x_params>>
        /\ UNCHANGED restVars

\* Enmovito.on_plot_requested called with one Fahrenheit parameter, against
\* the time, its figure kept within MaxTabTraces traces.
TabSelections == { <<ColO>> }
PlotInTab ==
    \E sel \in TabSelections :
        /\ Len(DictGet(tab_figures, current_index, NoFigure).data) + Len(sel) <= MaxTabTraces
        /\ on_plot_requested(sel, [ i \in 1..Len(sel) |-> DisplayName(sel[i]) ], ColT,
                             DisplayName(ColT))
        /\ UNCHANGED <<df, log_file_path, numeric_columns, abbr_to_full, full_to_abbr,
                       use_celsius, load_ret, last_file, prev_abbrs, held_path,
                       tab_text, current_index, last_plot, control_panel, fn_arg, fn_res>>

\* Enmovito.on_plot_requested in the runs that plot only on a tab whose
\* figure has no traces yet.
PlotInFreshTab ==
    /\ DictGet(tab_figures, current_index, NoFigure).data = <<>>
    /\ PlotInTab

\* The frame of the X-axis check: everything but the tabs' plots and the
\* outcome of the call.
checkFrame == <<df, log_file_path, numeric_columns, abbr_to_full, full_to_abbr,
                use_celsius, load_ret, last_file, prev_abbrs, held_path, tab_text,
                current_index, tab_x_params, last_plot, window, control_panel,
                fn_arg, fn_res>>

\* VisualizationPanel.check_x_axis_change called for a tab, as a caller of
\* the panel would before plotting; the window's own on_plot_requested
\* does not call it.
CheckXAxisChange ==
    \E index \in 0..(Len(plot_tabs) - 1), x \in XChoices :
        /\ check_x_axis_change(index, x)
        /\ UNCHANGED checkFrame

\* The user presses "Abort" or "Replace" in the open XAxisChangeDialog.
AnswerXAxisDialog ==
    \E accepted \in BOOLEAN :
        /\ check_x_axis_change_result(accepted)
        /\ UNCHANGED checkFrame

\* The plots of a tab are checked for a change of the X parameter, and
\* cleared, through the panel's own function.  The dialog is modal: while
\* it is open the window takes no other input.
NextXAxis ==
    IF plot_ret.kind = "dialog"
    THEN AnswerXAxisDialog
    ELSE AddPlotTab \/ SelectTab \/ PlotInTab \/ CheckXAxisChange

SpecXAxis == InitPlot /\ [][NextXAxis]_vars

NextTabs == AddPlotTab \/ ClosePlotTab \/ SelectTab \/ PlotInFreshTab

SpecTabs == InitPlot /\ [][NextTabs]_vars

\* Tabs are added and closed, the current tab is plotted into, and the
\* temperature preference is changed.
NextTabsTemp == AddPlotTab \/ ClosePlotTab \/ PlotInTab \/ TemperatureUnitChanged

SpecTabsTemp == InitPlot /\ [][NextTabsTemp]_vars

SpecPlot == InitPlot /\ [][NextPlot]_vars

-----------------------------------------------------------------------------
(* Claims about DataHandler.load_data *)

\* The last load_data call returned (True, "").
LoadSucceeded == load_ret.kind = "returned" /\ load_ret.ok

\* The header of the file the last call read, as the claims speak of it:
\* the fields of line 3 and line 2, the positions with a non-blank
\* abbreviation, and the full name of a position after the substitution of
\* the abbreviation for a blank or missing full name.
ClaimAbbr == split(strip(last_file.line3), ",")
ClaimFull == split(strip(last_file.line2), ",")
ClaimValid == { i \in 1..Len(ClaimAbbr) : strip(ClaimAbbr[i]) # <<>> }
ClaimFullName(i) ==
    IF i <= Len(ClaimFull) /\ strip(ClaimFull[i]) # <<>> THEN ClaimFull[i] ELSE ClaimAbbr[i]

\* abbr_to_full and full_to_abbr are inverse to each other.
MutualInverses ==
    /\ \A a \in DOMAIN abbr_to_full :
          /\ abbr_to_full[a] \in DOMAIN full_to_abbr
          /\ full_to_abbr[abbr_to_full[a]] = a
    /\ \A f \in DOMAIN full_to_abbr :
          /\ full_to_abbr[f] \in DOMAIN abbr_to_full
          /\ abbr_to_full[full_to_abbr[f]] = f

\* The valid columns carry pairwise distinct abbreviations and pairwise
\* distinct full names.
DistinctNames ==
    \A i, j \in ClaimValid :
        i # j => ClaimAbbr[i] # ClaimAbbr[j] /\ ClaimFullName(i) # ClaimFullName(j)

\* C1 as stated: after every successful load the two mappings are mutual
\* inverses, also when two valid columns carry the same full name.
C1_MutualInversesAlways == LoadSucceeded => MutualInverses

\* C1 (amended): after a successful load of a file whose valid columns carry
\* pairwise distinct abbreviated names and pairwise distinct full names (the
\* abbreviation standing in for an empty full name), abbr_to_full and
\* full_to_abbr are mutual inverses over the valid columns: their keys are
\* exactly the abbreviated and the full names of the valid columns, and each
\* mapping undoes the other.
C1_MutualInversesWhenDistinct ==
    (LoadSucceeded /\ DistinctNames) =>
        /\ MutualInverses
        /\ DOMAIN abbr_to_full = { ClaimAbbr[i] : i \in ClaimValid }
        /\ DOMAIN full_to_abbr = { ClaimFullName(i) : i \in ClaimValid }

\* C1 witness: a successful load of two valid columns with distinct names,
\* one of them with an empty full name replaced by its abbreviation.
C1_Witness ==
    /\ LoadSucceeded /\ DistinctNames
    /\ Cardinality(ClaimValid) = 2
    /\ \E i \in ClaimValid : ClaimFullName(i) = ClaimAbbr[i]
    /\ \E i \in ClaimValid : ClaimFullName(i) # ClaimAbbr[i]

\* The positions of line 3 whose abbreviated name is empty or whitespace-only.
BlankPositions ==
    LET cells == split(last_file.line3, ",")
    IN  { i \in 1..Len(cells) : strip(cells[i]) = <<>> }

\* C2 as stated: after a successful load, no column position with an empty or
\* whitespace-only abbreviated name is in abbr_to_full, in full_to_abbr, among
\* the table's columns (no empty and no 'Unnamed:' name either) or among
\* numeric_columns.
C2_BlankColumnsExcluded ==
    LoadSucceeded =>
        /\ \A a \in DOMAIN abbr_to_full : strip(a) # <<>>
        /\ \A f \in DOMAIN full_to_abbr : strip(full_to_abbr[f]) # <<>>
        /\ \A k \in 1..Len(df.columns) :
              /\ df.columns[k].pos \notin BlankPositions
              /\ strip(df.columns[k].name) # <<>>
              /\ ~startswith(df.columns[k].name, UnnamedPrefix)
        /\ \A n \in 1..Len(numeric_columns) :
              \A k \in 1..Len(df.columns) :
                  df.columns[k].name = numeric_columns[n]
                      => df.columns[k].pos \notin BlankPositions

\* The file the last call read cannot be loaded.
LastFileBad == ~last_file.exists \/ last_file.nlines < 3 \/ ~last_file.parses

\* C3: every load_data call returns to its caller, and returns (False, message)
\* when the file does not exist, has fewer than three lines or cannot be parsed.
C3_ErrorsAreReturned ==
    load_ret.kind # "none" =>
        /\ load_ret.kind = "returned"
        /\ LastFileBad => ~load_ret.ok

\* C3 witness: a file with fewer than three lines was loaded and the call
\* returned a failure.
C3_Witness ==
    /\ last_file.exists /\ last_file.nlines < 3
    /\ load_ret.kind = "returned" /\ ~load_ret.ok

\* The mappings, the table and the numeric columns are what one load of c builds.
DerivedFrom(c) ==
    LET cols == FilterColumns(read_csv(c)) IN
    /\ <<abbr_to_full, full_to_abbr>> = BuildMappings(<<EmptyDict, EmptyDict>>, c)
    /\ df = DataFrame(cols)
    /\ numeric_columns = NumericColumnNames(cols)

\* C4 as stated: whenever a table is held, the mappings, the table and
\* numeric_columns all derive from one and the same file.
C4_StateFromOneFile ==
    df.none \/
    \E ed \in Editions, a \in Tuples(NamedAbbrCells, MaxCols) :
        DerivedFrom(NamedFile(ed, a, TRUE))

\* C5: after a successful load the mappings hold exactly the entries of the
\* valid columns of the loaded file's header lines, and nothing left over
\* from the file loaded before.
C5_MappingsRebuilt ==
    LoadSucceeded =>
        /\ DOMAIN abbr_to_full = { ClaimAbbr[i] : i \in ClaimValid }
        /\ \A a \in DOMAIN abbr_to_full :
              \E i \in ClaimValid : ClaimAbbr[i] = a /\ ClaimFullName(i) = abbr_to_full[a]
        /\ DOMAIN full_to_abbr = { ClaimFullName(i) : i \in ClaimValid }
        /\ \A f \in DOMAIN full_to_abbr :
              \E i \in ClaimValid : ClaimFullName(i) = f /\ ClaimAbbr[i] = full_to_abbr[f]

\* C5 witness: a successful load that follows another file's mappings, one of
\* whose abbreviations the new file does not have.
C5_Witness ==
    /\ LoadSucceeded
    /\ \E a \in prev_abbrs : a \notin DOMAIN abbr_to_full

-----------------------------------------------------------------------------
(* Claims about extract_unit and fahrenheit_to_celsius *)

\* s has no parenthesis.
NoParens(s) == \A i \in 1..Len(s) : s[i] \notin {"(", ")"}

\* C6: extract_unit gives "Unknown" for a name without '(' or without ')',
\* gives u for a name prefix + '(' + u + ')' whose prefix and u hold no
\* parenthesis, and DataHandler's and VisualizationPanel's agree on every name.
C6_ExtractUnit ==
    fn_res.done =>
        /\ ((\A i \in 1..Len(fn_arg) : fn_arg[i] # "(") \/
            (\A i \in 1..Len(fn_arg) : fn_arg[i] # ")"))
               => fn_res.dh = Unknown
        /\ \A i \in 1..Len(fn_arg) :
              ( /\ fn_arg[i] = "("
                /\ fn_arg[Len(fn_arg)] = ")"
                /\ NoParens(SubSeq(fn_arg, 1, i - 1))
                /\ NoParens(SubSeq(fn_arg, i + 1, Len(fn_arg) - 1)) )
              => fn_res.dh = SubSeq(fn_arg, i + 1, Len(fn_arg) - 1)
        /\ fn_arg = OilTempDegF => fn_res.dh = DegF
        /\ fn_res.vp = fn_res.dh

\* C6 witness: the unit of 'Oil Temp (deg F)' was extracted.
C6_Witness == fn_res.done /\ fn_arg = OilTempDegF /\ fn_res.dh = DegF

\* The double x is within a millionth of the number num/den (den > 0):
\* |x * den - num| * 1000000 <= den, both sides scaled by a power of two
\* that makes them whole.
Near(x, num, den) ==
    LET k    == IF x.exp < 0 THEN 0 - x.exp ELSE 0
        a    == BigMul(ShiftLeft(x.man, x.exp + k), Bits(den))
        b    == ShiftLeft(Bits(Abs(num)), k)
        diff == IF x.neg # (num < 0) THEN BigAdd(a, b)
                ELSE IF BigLess(a, b) THEN BigSub(b, a) ELSE BigSub(a, b)
    IN  ~BigLess(ShiftLeft(Bits(den), k), BigMul(diff, Bits(1000000)))

\* C7: the conversion gives (x - 32) * 5 / 9, and converting back with
\* celsius_to_fahrenheit gives x, both within a tolerance of a millionth.
C7_RoundTrip ==
    fn_res.done =>
        /\ Near(fn_res.celsius, 5 * (fn_arg.num - 32 * fn_arg.den), 9 * fn_arg.den)
        /\ Near(fn_res.back, fn_arg.num, fn_arg.den)

\* C7 witness: 0 degrees Fahrenheit became a Celsius value that is not
\* -160/9, which no double is, and came back as 0 within the tolerance.
C7_Witness ==
    /\ fn_res.done /\ fn_arg = [num |-> 0, den |-> 1]
    /\ fn_res.celsius.neg /\ Len(fn_res.celsius.man) > 50 /\ fn_res.celsius.exp < 0
    /\ Near(fn_res.back, 0, 1)

-----------------------------------------------------------------------------
(* Claims about VisualizationPanel.generate_plot *)

\* The selected parameters of the last call that were plotted: the numeric ones.
PlottedParams ==
    SelectSeq(last_plot.selected,
              LAMBDA p : \E k \in 1..Len(numeric_columns) : numeric_columns[k] = p)

\* The figure the last call stored, and the places of its new traces.
LastFigure == tab_figures[last_plot.tab]
NewTracePlaces == (last_plot.before + 1)..Len(LastFigure.data)

\* The numbers the plotted log holds in a column.
NumbersOf(param) ==
    LET k == CHOOSE k \in 1..Len(df.columns) : df.columns[k].name = param
    IN  PlotLogNumbers(df.columns[k].pos)

\* c is (f - 32) * 5 / 9 as a double has it, and a series holds that of each
\* number of a column.
IsCelsiusOf(c, f) == Near(c, 5 * (f - 32), 9)
ConvertedFrom(values, column) ==
    /\ Len(values) = Len(column)
    /\ \A r \in 1..Len(column) : IsCelsiusOf(values[r], column[r])

\* A unit is Fahrenheit when it is 'deg F'.
NamesFahrenheit(unit) == unit = DegF

\* The values plotted for a column of the given unit under the preference of
\* the last call are what the claim asks for.
PlottedAsClaimed(values, param, unit) ==
    IF last_plot.celsius /\ NamesFahrenheit(unit)
    THEN ConvertedFrom(values, NumbersOf(param))
    ELSE values = Series(df, param)

\* C8 as stated: a generate_plot call adds one trace for every selected
\* parameter; when the preference is Celsius and the parameter's unit is
\* Fahrenheit ('deg F') the trace holds (f - 32) * 5 / 9 of the column values
\* and its panel's label reads 'deg C' instead of 'deg F'; when the
\* preference is Fahrenheit or the unit is not Fahrenheit, values and label
\* are those of the column.  The X values of the trace follow the same rule
\* with the unit of the X parameter.
C8_CelsiusConversion ==
    last_plot.done =>
        /\ Cardinality(NewTracePlaces) = Len(PlottedParams)
        /\ \A j \in 1..Len(PlottedParams) :
              LET param == PlottedParams[j]
                  name  == DisplayName(param)
                  unit  == DataHandler_extract_unit(name)
                  label == IF last_plot.celsius /\ NamesFahrenheit(unit)
                           THEN DegC ELSE unit
              IN  \E t \in NewTracePlaces :
                      LET trace == LastFigure.data[t] IN
                      /\ trace.name = name
                      /\ PlottedAsClaimed(trace.y, param, unit)
                      /\ LastFigure.annotations[trace.yaxis] = UnitPrefix \o label
                      /\ PlottedAsClaimed(trace.x, last_plot.x_param,
                            DataHandler_extract_unit(DisplayName(last_plot.x_param)))

\* The unit of a trace, from its name, and the unit in the title of a panel.
TraceUnit(trace) == DataHandler_extract_unit(trace.name)
PanelUnit(fig, row) == SubSeq(fig.annotations[row], Len(UnitPrefix) + 1, Len(fig.annotations[row]))

\* The trace sits in a panel titled with its unit, as written or relabelled.
InOwnPanel(fig, trace) ==
    PanelUnit(fig, trace.yaxis) \in {TraceUnit(trace), replace(TraceUnit(trace), DegF, DegC)}

\* C9 as stated: after any sequence of generate_plot calls every tab's figure
\* has exactly one panel for each distinct unit among its traces (no two
\* panels of one unit, no panel without a trace) and every trace sits in the
\* panel of its own unit.
C9_OnePanelPerUnit ==
    \A k \in DOMAIN tab_figures :
        LET fig == tab_figures[k] IN
        ~fig.none =>
            /\ \A i, j \in 1..Len(fig.annotations) :
                  i # j => fig.annotations[i] # fig.annotations[j]
            /\ \A i \in 1..Len(fig.annotations) :
                  \E t \in 1..Len(fig.data) : fig.data[t].yaxis = i
            /\ \A t \in 1..Len(fig.data) : InOwnPanel(fig, fig.data[t])

RECURSIVE MatchGroup(_, _)
\* The rows whose X axes plotly keeps in step with those of the rows in
\* group: the axes joined to them by 'matches', in either direction.
MatchGroup(fig, group) ==
    LET rows   == 1..Len(fig.xmatches)
        joined == group \cup { k \in rows : fig.xmatches[k] \in group }
                        \cup { fig.xmatches[k] : k \in { g \in group : fig.xmatches[g] # 0 } }
    IN  IF joined = group THEN group ELSE MatchGroup(fig, joined)

\* Every panel after the first has its X axis linked to the first panel's.
XAxesLinked(fig) == \A r \in 2..Len(fig.xmatches) : r \in MatchGroup(fig, {1})

\* No panel's Y axis matches another's.
YAxesFree(fig) == \A r \in 1..Len(fig.ymatches) : fig.ymatches[r] = 0

\* C10 as stated: generate_plot produces a figure for any number of panels,
\* and in every figure with two or more panels each panel after the first
\* has its X axis linked to the first panel's, while no Y axis is linked.
C10_AxesLinked ==
    /\ plot_ret.kind # "raised"
    /\ \A k \in DOMAIN tab_figures :
          LET fig == tab_figures[k] IN
          ~fig.none => XAxesLinked(fig) /\ YAxesFree(fig)

-----------------------------------------------------------------------------
(* Claims about the results of loading *)

\* C11 as stated: load_data returns (True, "") on success and (False, message)
\* on failure, the message being empty exactly when the load succeeded,
\* whatever made it fail.
C11_MessageEmptyIffSuccess ==
    load_ret.kind = "returned" =>
        /\ load_ret.ok => load_ret.msg = ""
        /\ ~load_ret.ok => load_ret.msg # ""

\* C12 as stated: after any sequence of load_data calls get_file_name gives
\* the base name of the file whose data df holds, and the empty string while
\* no load has succeeded.
C12_FileNameOfHeldData ==
    get_file_name = IF df.none THEN <<>> ELSE basename(held_path)

\* The step is one of select_file, the only handler that writes the path,
\* the outcome of the load, the window's path or the window's error text,
\* and its DataHandler.load_data failed.
LoadFailedStep ==
    /\ \/ <<log_file_path, load_ret, last_file, window.log_file_path>>'
             # <<log_file_path, load_ret, last_file, window.log_file_path>>
       \/ /\ window'.plot_placeholder # window.plot_placeholder
          /\ window'.plot_placeholder.says = ErrorText("").says
    /\ ~(load_ret'.kind = "returned" /\ load_ret'.ok)

\* C13: when DataHandler.load_data fails, Enmovito.load_data shows
\* 'Error loading file: <message>' in the label and leaves the window's df
\* and numeric_columns, the parameter and X-axis lists, their selection and
\* the enabled state of the controls as they were.
C13_FailedLoadLeavesWindow ==
    [][ LoadFailedStep =>
          /\ window'.plot_placeholder = ErrorText(load_ret'.msg)
          /\ window'.df = window.df
          /\ window'.numeric_columns = window.numeric_columns
          /\ control_panel'.param_list = control_panel.param_list
          /\ control_panel'.x_axis_list = control_panel.x_axis_list
          /\ control_panel'.param_selected = control_panel.param_selected
          /\ control_panel'.x_selected = control_panel.x_selected
          /\ control_panel'.enabled = control_panel.enabled ]_vars

\* C13 witness: a load failed while the window held a table, with a
\* parameter and an X parameter selected and the controls enabled.
C13_Witness ==
    /\ window.plot_placeholder.says = ErrorText("").says
    /\ ~window.df.none
    /\ window.log_file_path # held_path
    /\ control_panel.param_selected # {}
    /\ control_panel.x_selected # 0
    /\ control_panel.enabled

-----------------------------------------------------------------------------
(* Claims about the plot tabs *)

\* The positions of the open tabs, counted from 0.
TabPositions == 0..(Len(plot_tabs) - 1)

\* tab_plot_browsers has an entry for every open tab and for nothing else,
\* and the entry of position i is the web view in the layout of the tab shown
\* at i, or None when that tab shows its placeholder.
BrowsersMatchTabs ==
    /\ DOMAIN tab_plot_browsers = TabPositions
    /\ \A i \in TabPositions :
          tab_plot_browsers[i] = IF plot_tabs[i + 1].view THEN Browser(i) ELSE NoBrowser

\* A step in which a tab was closed.
TabClosedStep == Len(plot_tabs') < Len(plot_tabs)

\* C14: after close_plot_tab(index), for any index and any number of open
\* tabs, tab_plot_browsers maps each remaining position to the browser (or
\* None) of the tab now displayed there, and has no entry for a position
\* that no longer exists.
C14_CloseKeepsBrowsers ==
    [][ (TabClosedStep /\ BrowsersMatchTabs) => BrowsersMatchTabs' ]_vars

\* C15: after any sequence of add_plot_tab, close_plot_tab and generate_plot,
\* tab_figures[i] is the figure displayed in tab i (None for a tab that shows
\* its placeholder), and a tab that displays a figure has its X parameter in
\* tab_x_params[i]; so the figure generate_plot takes as existing figure is
\* the one of the current tab, never one of a tab closed since.
C15_FiguresDescribeTabs ==
    \A i \in TabPositions :
        /\ DictGet(tab_figures, i, NoFigure) = plot_tabs[i + 1].figure
        /\ plot_tabs[i + 1].view => i \in DOMAIN tab_x_params

\* C16: the last plot tab cannot be closed: there is always at least one
\* tab, and close_plot_tab on the only tab changes neither the tabs nor
\* tab_plot_browsers.
C16_LastTabStays ==
    /\ [](Len(plot_tabs) >= 1)
    /\ [][ (Len(plot_tabs) = 1 /\ close_plot_tab(0))
              => UNCHANGED <<plot_tabs, tab_text, current_index, tab_plot_browsers>> ]_vars

\* A second tab was added and closed again: one tab is left, and its close
\* button asks for close_plot_tab(0).
C16_Witness ==
    /\ Len(plot_tabs) = 1
    /\ 1 \in DOMAIN tab_figures
    /\ ENABLED ClosePlotTab

\* C17: after any sequence of add_plot_tab and close_plot_tab calls the tab
\* at position i (from 0) is titled 'Plot i+1', and add_plot_tab makes the
\* tab it appends the current tab.
C17_TabsNumbered ==
    /\ [](/\ Len(tab_text) = Len(plot_tabs)
          /\ \A i \in TabPositions :
                tab_text[i + 1] = <<"P", "l", "o", "t", " ">> \o IntToStr(i + 1))
    /\ [][ Len(plot_tabs') > Len(plot_tabs)
              => /\ current_index' = Len(plot_tabs') - 1
                 /\ tab_text'[Len(tab_text')] =
                        <<"P", "l", "o", "t", " ">> \o IntToStr(Len(plot_tabs) + 1) ]_vars

\* Three tabs were opened, one was closed and the two left are renumbered.
C17_Witness ==
    /\ Len(plot_tabs) = 2
    /\ 2 \in DOMAIN tab_figures
    /\ tab_text = << <<"P", "l", "o", "t", " ", "1">>, <<"P", "l", "o", "t", " ", "2">> >>

-----------------------------------------------------------------------------
(* Claims about the temperature preference and the tabs *)

\* dict.get(key) of the two dictionaries, None for a missing key.
BrowserOf(i) == DictGet(tab_plot_browsers, i, NoBrowser)
FigureOf(i) == DictGet(tab_figures, i, NoFigure)

\* C18: immediately after on_temperature_unit_changed(v) the preference
\* get_temperature_unit() is v, and every open tab i has
\* tab_plot_browsers[i] = None and tab_figures[i] = None.
C18_ChangeClearsTabs ==
    [][ \A v \in BOOLEAN :
          on_temperature_unit_changed(v) =>
              /\ use_celsius' = v
              /\ \A i \in TabPositions :
                    BrowserOf(i)' = NoBrowser /\ FigureOf(i)' = NoFigure ]_vars

\* The column whose list item reads name.
ColumnOf(name) == CHOOSE col \in { df.columns[k].name : k \in 1..Len(df.columns) } :
                      DisplayName(col) = name

\* The Y values of a trace of a Fahrenheit parameter are those plotted under
\* the preference now selected: the column's values, or their Celsius
\* equivalents.
UnderCurrentPreference(trace) ==
    NamesFahrenheit(TraceUnit(trace)) =>
        IF use_celsius
        THEN ConvertedFrom(trace.y, NumbersOf(ColumnOf(trace.name)))
        ELSE trace.y = Series(df, ColumnOf(trace.name))

\* C19: no figure mixes temperature units: after any sequence of plot
\* requests, tab additions and closures and temperature unit changes, every
\* trace of a Fahrenheit parameter in the figure an open tab displays was
\* generated under the preference that is selected now.
C19_OnePreferencePerFigure ==
    \A i \in TabPositions :
        \A t \in 1..Len(plot_tabs[i + 1].figure.data) :
            UnderCurrentPreference(plot_tabs[i + 1].figure.data[t])

\* The X values of a trace are those of the column x_param, as they are or
\* converted to Celsius.
PlottedAgainst(trace, x_param) ==
    \/ trace.x = Series(df, x_param)
    \/ ConvertedFrom(trace.x, NumbersOf(x_param))

\* C20: all traces of one tab's figure share one X parameter: after any
\* sequence of plot requests every trace of the figure tab i displays was
\* plotted against tab_x_params[i] (a request with another X parameter is
\* aborted, or replaces the figure after clearing it).
C20_OneXParameterPerTab ==
    \A i \in TabPositions :
        \A t \in 1..Len(plot_tabs[i + 1].figure.data) :
            /\ i \in DOMAIN tab_x_params
            /\ PlottedAgainst(plot_tabs[i + 1].figure.data[t], tab_x_params[i])

-----------------------------------------------------------------------------
(* Claims about adding to a figure and about the plot request *)

\* A step of generate_plot that stored a figure in the current tab, which
\* held a figure with traces.
MergeStep ==
    /\ last_plot'.done
    /\ tab_figures' # tab_figures
    /\ Len(FigureOf(current_index).data) > 0

\* C21: when generate_plot runs on a tab that holds a non-empty figure, every
\* existing trace is kept in the panel row it had, the existing panels keep
\* their places and the panels of the new unit groups follow them, one for
\* each unit of the newly plotted parameters, and the trace count grows by
\* the number of newly plotted parameters.
C21_MergeKeepsTraces ==
    [][ MergeStep =>
          LET old   == FigureOf(current_index)
              new   == FigureOf(current_index)'
              added == PlottedParams'
              units == { DataHandler_extract_unit(DisplayName(added[j])) : j \in 1..Len(added) }
          IN  /\ Len(new.data) = Len(old.data) + Len(added)
              /\ \A k \in 1..Len(old.data) : new.data[k] = old.data[k]
              /\ SubSeq(new.annotations, 1, Len(old.annotations)) = old.annotations
              /\ Len(new.annotations) = Len(old.annotations) + Cardinality(units)
              /\ \A k \in (Len(old.data) + 1)..Len(new.data) :
                    new.data[k].yaxis > Len(old.annotations) ]_vars

\* A figure with two panels, an 'R (rpm)' trace in the second, was added to:
\* the trace is still in the second row and a third panel follows.
C21_Witness ==
    /\ last_plot.done
    /\ last_plot.before >= 2
    /\ Len(LastFigure.annotations) >= 3
    /\ \E k \in 1..last_plot.before :
          LastFigure.data[k].yaxis = 2 /\ LastFigure.data[k].name = DisplayName(ColR)

\* The places of the last request's selected parameters that are numeric,
\* and the k-th of them in list order.
NumericPlaces ==
    { i \in 1..Len(last_plot.selected) :
        \E k \in 1..Len(window.numeric_columns) :
            window.numeric_columns[k] = last_plot.selected[i] }
NthNumericPlace(k) ==
    CHOOSE i \in NumericPlaces : Cardinality({ j \in NumericPlaces : j < i }) = k - 1

\* The tabs and what the panel keeps about them.
tabVars == <<plot_tabs, tab_text, current_index, tab_plot_browsers, tab_figures, tab_x_params>>

\* C22: on_plot_requested passes to generate_plot exactly the selected
\* parameters that are in numeric_columns, in their original order, each
\* paired with its own display name, and the traces added are theirs; when no
\* selected parameter is numeric generate_plot is not called and no tab
\* state changes.
C22_OnlyNumericPlotted ==
    /\ [](last_plot.requested =>
            /\ Len(last_plot.params) = Cardinality(NumericPlaces)
            /\ Len(last_plot.names) = Cardinality(NumericPlaces)
            /\ \A k \in 1..Cardinality(NumericPlaces) :
                  /\ last_plot.params[k] = last_plot.selected[NthNumericPlace(k)]
                  /\ last_plot.names[k] = last_plot.shown[NthNumericPlace(k)]
            /\ (NumericPlaces = {}) <=> (plot_ret = PlotSkipped)
            /\ last_plot.done =>
                  { LastFigure.data[t].name : t \in NewTracePlaces }
                      = { last_plot.shown[i] : i \in NumericPlaces })
    /\ [][ (last_plot'.requested /\ NumericPlaces' = {}) => UNCHANGED tabVars ]_vars

\* The text column 'N' and 'O (deg F)' were selected: only O was plotted.
C22_Witness ==
    /\ last_plot.done
    /\ last_plot.selected = <<ColN, ColO>>
    /\ last_plot.params = <<ColO>>
    /\ Len(LastFigure.data) = last_plot.before + 1

-----------------------------------------------------------------------------
(* Claims about names with several parentheses *)

\* s[i] opens and s[j] closes a parenthesized group: no parenthesis between.
IsGroup(s, i, j) ==
    /\ i < j
    /\ s[i] = "("
    /\ s[j] = ")"
    /\ NoParens(SubSeq(s, i + 1, j - 1))

Groups(s) == { p \in (1..Len(s)) \X (1..Len(s)) : IsGroup(s, p[1], p[2]) }

\* The content of the last parenthesized group of s.
TrailingGroup(s) ==
    LET last == CHOOSE p \in Groups(s) : \A q \in Groups(s) : q[1] <= p[1]
    IN  SubSeq(s, last[1] + 1, last[2] - 1)

\* s has a ')' before its first '('.
ClosesBeforeOpening(s) ==
    \E j \in 1..Len(s) : s[j] = ")" /\ \A i \in 1..j : s[i] # "("

\* C23: for a full name that holds more than one parenthesized group, or a
\* group and a ')' before its first '(', extract_unit returns the content of
\* the trailing parenthesized group.
C23_TrailingGroup ==
    ( /\ fn_res.done
      /\ Groups(fn_arg) # {}
      /\ Cardinality(Groups(fn_arg)) > 1 \/ ClosesBeforeOpening(fn_arg) )
        => fn_res.dh = TrailingGroup(fn_arg)

====
